---- MODULE Spec2Model ----
(***************************************************************************)
(* Model of the ChronosSim simulation execution engine:                    *)
(*   - SimulationManager (src/src/model/simulation/simulation_handler.py)  *)
(*   - SimulationWorker  (src/src/model/simulation/simulation_worker.py)   *)
(* The manager runs in the UI process; every worker runs in a process of   *)
(* its own and talks to the manager through two multiprocessing queues.    *)
(* A multiprocessing queue hands each item to exactly one consumer; it     *)
(* keeps the order of the puts of one producer and promises no order       *)
(* between the puts of different producers. The control queue has one      *)
(* producer and is a sequence; the results queue is kept per producer.     *)
(*                                                                         *)
(* Specifications:                                                         *)
(*   Spec          a configured manager, its operations called in any      *)
(*                 order, and the worker processes                         *)
(*   SpecUI        the same manager called the way BottomBarController     *)
(*                 calls it, and the worker processes                      *)
(*   SpecLifecycle the lifecycle operations alone                          *)
(*   SpecConfig    the setters and the lifecycle operations, from          *)
(*                 construction on                                         *)
(***************************************************************************)
EXTENDS Integers, Sequences, FiniteSets, TLC

(* ------------------------------ bounds --------------------------------- *)
\* ids available for worker objects (each create_simulations mints new ones)
MaxWorkers == 2
\* largest value the step_count attribute is given
MaxStepCount == 2
\* number of times the manager replaces its queues (clear_simulation)
MaxGen == 1
\* control messages a single control queue is allowed to hold
MaxQueue == 2

(* ------------------------- program constants --------------------------- *)
\* SimulationManager.num_simulations
num_simulations == 1

\* Python None
None == "None"

\* members of enum SimulationState; a member is a different object from its
\* value, so it never compares equal to the strings "running" / "paused"
Empty == "SimulationState.Empty"
RUNNING == "SimulationState.RUNNING"
PAUSED == "SimulationState.PAUSED"

SimulationState == {Empty, RUNNING, PAUSED}

WorkerIds == 1..MaxWorkers
Gens == 0..MaxGen

\* values a caller hands to the setters
GridValues == {None, "grid"}
NodeValues == {None, "node"}
SpawnerValues == {None, "spawner"}
TargetValues == {None, "targets"}
NodeCountValues == {-1, 1, 2}
StepCountValues == 1..MaxStepCount

VARIABLES
    status,           \* SimulationManager.status
    config,           \* grid, node, message_spawner, target_spawner, node_count, step_count
    simulations,      \* keys of SimulationManager.simulations (the pool)
    gen,              \* identity of the manager's current queue pair
    control_queue,    \* gen -> contents of that control queue
    results_queue,    \* id -> snapshots that worker has put on its results
                      \* queue and nobody has taken off yet
    collector,        \* _collector_event is scheduled
    mgr,              \* manager call in progress: "idle" or "stopping"
    raised,           \* the exception the last manager call raised, if any
    published,        \* id -> the last snapshot sent for that simulation id
                      \* on "simulation.result_updated"
    lastStep,         \* what the child processes of the last step() did
    worker,           \* id -> SimulationWorker object and its process
    ui,               \* BottomBarController handler in progress, or "idle"
    \* the objects inside one worker, for the specifications that look into
    \* a simulation step
    nodes,            \* node id -> the protocol state of that node object
    heap,             \* the BaseMessage objects and the dicts they refer to
    grid,             \* BaseSimulationGrid: node positions and region lists
    sim               \* the activation of _simulate_step / simulate

\* the variables of the manager and of the worker processes
procVars == <<status, config, simulations, gen, control_queue, results_queue,
              collector, mgr, raised, published, lastStep, worker, ui>>

\* the variables inside one worker
simVars == <<nodes, heap, grid, sim>>

vars == <<status, config, simulations, gen, control_queue, results_queue,
          collector, mgr, raised, published, lastStep, worker, ui,
          nodes, heap, grid, sim>>

mgrVars == <<status, config, simulations, gen, control_queue, results_queue,
             collector, mgr, raised, published, lastStep>>

\* the specifications of manager and processes do not look into a worker
NoSimulation ==
    /\ nodes = <<>>
    /\ heap = <<>>
    /\ grid = <<>>
    /\ sim = <<>>

(* ------------------------------ worker --------------------------------- *)
\* a worker id nobody has constructed yet
NoWorker ==
    [proc |-> "none", queues |-> 0, step_count |-> 0, step |-> 0,
     status |-> "stop", pc |-> "loop", control |-> None,
     ages |-> 0, moves |-> 0, phases |-> <<>>]

\* SimulationWorker.__init__ : the object create_simulations builds
NewWorker(g, sc) ==
    [proc |-> "initial", queues |-> g, step_count |-> sc, step |-> 0,
     status |-> "stop", pc |-> "loop", control |-> None,
     ages |-> 0, moves |-> 0, phases |-> <<>>]

\* Process.is_alive()
is_alive(w) == worker[w].proc = "started"

\* no snapshot has been sent for an id yet
NoSnapshot ==
    [simulation_id |-> 0, step |-> -1, status |-> None, moves |-> 0,
     ages |-> 0]

\* what is left of worker record r when its process is not running and
\* nothing refers to the worker object any more
Gone(r) ==
    [proc |-> r.proc, queues |-> r.queues, step_count |-> 0, step |-> 0,
     status |-> "stop", pc |-> "done", control |-> None,
     ages |-> 0, moves |-> 0, phases |-> <<>>]

\* SimulationWorker._get_current_state : the snapshot of worker record r
\* (moves / ages stand for node positions and buffers: the number of move()
\* and on_simulation_step_end() calls every node has seen)
GetCurrentState(w, r) ==
    [simulation_id |-> w, step |-> r.step, status |-> r.status,
     moves |-> r.moves, ages |-> r.ages]

\* the phases of SimulationWorker._simulate_step, in the order it runs them
SimulateStepPhases ==
    <<"detect_collision", "pre_collision", "exchange",
      "on_collision_complete", "on_simulation_step_end">>

\* SimulationWorker._simulate_step on worker record r: its last phase calls
\* on_simulation_step_end on every node of the grid
SimulateStep(r) ==
    [r EXCEPT !.ages = @ + 1, !.phases = @ \o SimulateStepPhases]

\* Process.start() : the child begins simulate() at the loop test
Started(r) == [r EXCEPT !.proc = "started"]

\* simulate(), lines after the control handling of one iteration:
\* spawn_messages, _simulate_step, _send_current_state(metrics), then
\* on_simulation_step_end and move on every node, step += 1 and the loop
\* test; when the test fails simulate() returns and the process exits.
\* Gives the worker record afterwards.
RunStep(r) ==
    LET s == SimulateStep([r EXCEPT !.phases = <<"spawn_messages">>])
        t == [s EXCEPT !.ages = @ + 1,
                       !.moves = @ + 1,
                       !.step = @ + 1,
                       !.phases = @ \o <<"send_current_state",
                                         "on_simulation_step_end", "move">>]
    IN  IF t.step < t.step_count
        THEN [t EXCEPT !.pc = "loop"]
        ELSE [t EXCEPT !.pc = "done", !.proc = "exited"]

\* a snapshot taken when the iteration is over, after step += 1
StepSnapshotAfterIncrement(w, r) ==
    GetCurrentState(w, [SimulateStep(r) EXCEPT !.step = @ + 1])

\* the snapshot RunStep(r) puts on the results queue: it is taken after
\* _simulate_step and before the final on_simulation_step_end / move
StepSnapshot(w, r) == GetCurrentState(w, SimulateStep(r))

\* a poll that blocks on a pause without setting the status first
PauseTakenStatusKept(r) ==
    [r EXCEPT !.control = "pause", !.phases = <<>>]

\* simulate(): a pause command was taken at the poll
PauseTaken(r) ==
    [r EXCEPT !.status = "paused", !.control = "pause", !.phases = <<>>]

\* simulate(), one loop iteration from the non-blocking poll of the control
\* queue (get_nowait): a pause is answered with a snapshot and the blocking
\* wait, anything else is followed by the step
WorkerIterate(w) ==
    LET r == worker[w]
        q == control_queue[r.queues]
    IN  /\ is_alive(w) /\ r.pc = "loop" /\ r.step < r.step_count
        /\ IF q = <<>>
           THEN \* queue.Empty
                /\ worker' = [worker EXCEPT ![w] = RunStep(r)]
                /\ results_queue' = [results_queue EXCEPT ![w] =
                                        Append(@, StepSnapshot(w, r))]
                /\ UNCHANGED control_queue
           ELSE /\ control_queue' = [control_queue EXCEPT ![r.queues] = Tail(q)]
                /\ IF Head(q) = "pause"
                   THEN LET p == PauseTaken(r)
                        IN  /\ results_queue' =
                                 [results_queue EXCEPT ![w] =
                                     Append(@, GetCurrentState(w, p))]
                            /\ worker' = [worker EXCEPT ![w] =
                                             [p EXCEPT !.pc = "blocked"]]
                   ELSE LET c == IF Head(q) = "stop"
                                 THEN [r EXCEPT !.status = "stopped",
                                                !.control = "stop"]
                                 ELSE [r EXCEPT !.control = Head(q)]
                        IN  /\ worker' = [worker EXCEPT ![w] = RunStep(c)]
                            /\ results_queue' =
                                 [results_queue EXCEPT ![w] =
                                     Append(@, StepSnapshot(w, c))]
        /\ UNCHANGED <<status, config, simulations, gen, collector, mgr,
                       raised, published, lastStep>>

\* simulate(): the blocking control_queue.get() of a paused worker returns
\* and the iteration goes on with the step
WorkerWait(w) ==
    LET r == worker[w]
        q == control_queue[r.queues]
        \* "stopped" is assigned on a stop and overwritten by the next line
        c == [r EXCEPT !.control = Head(q), !.status = "running"]
    IN  /\ is_alive(w) /\ r.pc = "blocked"
        /\ q # <<>>
        /\ control_queue' = [control_queue EXCEPT ![r.queues] = Tail(q)]
        /\ worker' = [worker EXCEPT ![w] = RunStep(c)]
        /\ results_queue' = [results_queue EXCEPT ![w] =
                                Append(@, StepSnapshot(w, c))]
        /\ UNCHANGED <<status, config, simulations, gen, collector, mgr,
                       raised, published, lastStep>>

WorkerNext(w) ==
    \/ WorkerIterate(w)
    \/ WorkerWait(w)

\* simulate(): spawn_messages or _simulate_step raises in the iteration of
\* worker record r. No except clause of simulate() matches (the only one is
\* "except Empty" around the poll), so the exception leaves simulate() and
\* the process ends with what the worker had at that moment.
StepRaises(r) ==
    [r EXCEPT !.proc = "raised", !.pc = "done",
              !.phases = @ \o <<"spawn_messages">>]

\* one loop iteration of worker w whose poll took no pause and whose step
\* raises an exception
WorkerFault(w) ==
    LET r == worker[w]
        q == control_queue[r.queues]
    IN  /\ is_alive(w) /\ r.pc = "loop" /\ r.step < r.step_count
        /\ IF q = <<>>
           THEN /\ worker' = [worker EXCEPT ![w] = StepRaises(r)]
                /\ UNCHANGED control_queue
           ELSE /\ Head(q) # "pause"
                /\ control_queue' = [control_queue EXCEPT ![r.queues] = Tail(q)]
                /\ worker' = [worker EXCEPT ![w] =
                      StepRaises(IF Head(q) = "stop"
                                 THEN [r EXCEPT !.status = "stopped",
                                                !.control = "stop"]
                                 ELSE [r EXCEPT !.control = Head(q)])]
        /\ UNCHANGED <<status, config, simulations, gen, results_queue,
                       collector, mgr, raised, published, lastStep>>

(* ------------------------------ manager -------------------------------- *)
\* outcome of a manager call: it returned, or it raised exception e
Ok(op) == [op |-> None, error |-> None]
Raise(op, e) == [op |-> op, error |-> e]

\* SimulationManager.clear_simulation : new queue objects, empty pool, Empty.
\* A queue pair the manager has replaced lives on while a running process
\* holds it.
clear_simulation ==
    /\ gen' = gen + 1
    /\ control_queue' =
          [g \in Gens |->
              IF g # gen + 1 /\ \E w \in WorkerIds :
                                  worker'[w].proc = "started"
                                      /\ worker'[w].queues = g
              THEN control_queue[g] ELSE <<>>]
    /\ simulations' = {}
    /\ status' = Empty
    /\ collector' = FALSE

\* SimulationManager._ensure_editable : the exception it raises, or None.
\* It compares the enum member held in status with plain strings.
ensure_editable(st) ==
    IF st = "running" THEN "ConfigError"
    ELSE IF st = "paused" THEN "ConfigError"
    ELSE None

\* the body shared by set_grid / set_node / set_message_spawner /
\* set_target_spawner: _ensure_editable, then store the value
Setter(op, field, v) ==
    /\ mgr = "idle"
    /\ IF ensure_editable(status) # None
       THEN /\ raised' = Raise(op, ensure_editable(status))
            /\ UNCHANGED config
       ELSE /\ config' = [config EXCEPT ![field] = v]
            /\ raised' = Ok(op)
    /\ UNCHANGED <<status, simulations, gen, control_queue, results_queue,
                   collector, mgr, published, lastStep, worker>>

set_grid == \E v \in GridValues : Setter("set_grid", "grid", v)

set_node == \E v \in NodeValues : Setter("set_node", "node", v)

set_message_spawner ==
    \E v \in SpawnerValues : Setter("set_message_spawner", "message_spawner", v)

set_target_spawner ==
    \E v \in TargetValues : Setter("set_target_spawner", "target_spawner", v)

\* the node_count property setter: rejects negative values only
set_node_count ==
    \E v \in NodeCountValues :
        /\ mgr = "idle"
        /\ IF v < 0
           THEN /\ raised' = Raise("node_count", "ConfigError")
                /\ UNCHANGED config
           ELSE /\ config' = [config EXCEPT !.node_count = v]
                /\ raised' = Ok("node_count")
        /\ UNCHANGED <<status, simulations, gen, control_queue, results_queue,
                       collector, mgr, published, lastStep, worker>>

\* step_count is a plain attribute: assigning it runs no check at all
set_step_count ==
    \E v \in StepCountValues :
        /\ mgr = "idle"
        /\ config' = [config EXCEPT !.step_count = v]
        /\ raised' = Ok("step_count")
        /\ UNCHANGED <<status, simulations, gen, control_queue, results_queue,
                       collector, mgr, published, lastStep, worker>>

\* ids create_simulations gives to the workers it constructs
FreshIds == {w \in WorkerIds : worker[w].proc = "none"}

\* a test that looks at the grid only
ConfiguredGridOnly(c) == c.grid # None

\* the test that opens create_simulations: grid, node and message spawner
\* are all set
Configured(c) ==
    c.grid # None /\ c.node # None /\ c.message_spawner # None

\* SimulationManager.create_simulations
create_simulations ==
    /\ mgr = "idle"
    /\ IF Configured(config)
       THEN IF status = Empty
            THEN \E ids \in SUBSET FreshIds :
                    /\ Cardinality(ids) = num_simulations
                    /\ \A i \in ids : \A j \in FreshIds \ ids : i < j
                    /\ worker' = [w \in WorkerIds |->
                                     IF w \in ids
                                     THEN NewWorker(gen, config.step_count)
                                     ELSE worker[w]]
                    /\ simulations' = simulations \cup ids
                    /\ raised' = Ok("create_simulations")
            ELSE IF status = PAUSED
            THEN /\ raised' = Ok("create_simulations")
                 /\ UNCHANGED <<simulations, worker>>
            ELSE /\ raised' = Raise("create_simulations", "ConfigError")
                 /\ UNCHANGED <<simulations, worker>>
       ELSE /\ raised' = Raise("create_simulations", "ConfigError")
            /\ UNCHANGED <<simulations, worker>>
    /\ UNCHANGED <<status, config, gen, control_queue, results_queue,
                   collector, mgr, published, lastStep>>

\* a play() without its status test
PlayAllowedAlways(st) == TRUE

\* the status test that opens play()
PlayAllowed(st) == st \in {PAUSED, Empty}

\* SimulationManager.play
play ==
    /\ mgr = "idle"
    /\ IF PlayAllowed(status)
       THEN /\ Len(control_queue[gen]) < MaxQueue
            /\ worker' = [w \in WorkerIds |->
                             IF status = Empty /\ w \in simulations
                                /\ ~is_alive(w)
                             THEN Started(worker[w])
                             ELSE worker[w]]
            /\ control_queue' = [control_queue EXCEPT ![gen] =
                                    Append(@, "resume")]
            /\ status' = RUNNING
            /\ collector' = TRUE
            /\ raised' = Ok("play")
       ELSE /\ raised' = Raise("play", "ConfigError")
            /\ UNCHANGED <<worker, control_queue, status, collector>>
    /\ UNCHANGED <<config, simulations, gen, results_queue, mgr, published,
                   lastStep>>

\* SimulationManager.pause
pause ==
    /\ mgr = "idle"
    /\ IF status = RUNNING
       THEN /\ Len(control_queue[gen]) < MaxQueue
            /\ control_queue' = [control_queue EXCEPT ![gen] =
                                    Append(@, "pause")]
            /\ status' = PAUSED
            /\ collector' = FALSE
            /\ raised' = Ok("pause")
       ELSE /\ raised' = Raise("pause", "ConfigError")
            /\ UNCHANGED <<control_queue, status, collector>>
    /\ UNCHANGED <<config, simulations, gen, results_queue, mgr, published,
                   lastStep, worker>>

\* stop(), first half: put the stop command, then start joining the pool
stop_begin ==
    /\ mgr = "idle"
    /\ gen < MaxGen
    /\ control_queue' = [control_queue EXCEPT ![gen] = Append(@, "stop")]
    /\ mgr' = "stopping"
    /\ UNCHANGED <<status, config, simulations, gen, results_queue,
                   collector, raised, published, lastStep, worker>>

\* worker record r once the manager has emptied its pool: the object is
\* gone unless a running process holds its copy
Dropped(r) == IF r.proc = "started" THEN r ELSE Gone(r)

\* a stop() that joins with the timeout and never terminates
StopReapJoinOnly(r) == r

\* stop(): what the join(5) / terminate() pair leaves of one pooled process
\* once the joins are over
StopReap(r) ==
    IF r.proc = "started" THEN [r EXCEPT !.proc = "terminated"] ELSE r

\* stop(), second half: the joins have returned or timed out; terminate the
\* processes still alive, cancel the collector, clear_simulation
stop_end ==
    /\ mgr = "stopping"
    /\ worker' = [w \in WorkerIds |->
                     IF w \in simulations THEN Dropped(StopReap(worker[w]))
                     ELSE Dropped(worker[w])]
    /\ results_queue' = [w \in WorkerIds |->
                            IF worker'[w].proc = "started"
                            THEN results_queue[w] ELSE <<>>]
    /\ clear_simulation
    /\ mgr' = "idle"
    /\ raised' = Ok("stop")
    /\ UNCHANGED <<config, published, lastStep>>

\* the methods class SimulationWorker defines
WorkerMethods ==
    {"_capture_success_messages", "_get_current_state", "simulate",
     "_send_current_state", "_simulate_step", "_calculate_metadata_size",
     "_calculate_payload_size"}

\* SimulationManager._execute_single_step, run in a child process on a copy
\* of the worker object r the manager holds: what it ran, how it ended and
\* what it put on the results queue
ExecuteSingleStep(w, r) ==
    LET s == SimulateStep(r)
    IN  IF "capture_state" \notin WorkerMethods
        THEN [sim |-> w, phases |-> s.phases, error |-> "AttributeError",
              put |-> <<>>]
        ELSE LET t == [s EXCEPT !.ages = @ + 1, !.moves = @ + 1,
                                !.phases = @ \o <<"capture_state",
                                                  "on_simulation_step_end",
                                                  "move">>]
             IN  [sim |-> w, phases |-> t.phases, error |-> None,
                  put |-> <<GetCurrentState(w, t)>>]

\* the worker object the manager process holds for pool entry w: it is the
\* one create_simulations built, the processes work on copies of it
ManagerCopy(w) == NewWorker(worker[w].queues, worker[w].step_count)

\* the producers whose puts are in the manager's current results queue
Producers ==
    {w \in WorkerIds : worker[w].proc # "none" /\ worker[w].queues = gen}

\* the drain loop of _collect_results / _collect_immediate_results: every
\* snapshot in the manager's results queue is taken off and sent with
\* pub.sendMessage("simulation.result_updated", simulation_id, result);
\* extra[w] are the snapshots put under id w while the call was waiting
Drained(extra) ==
    [w \in WorkerIds |->
        LET sent == (IF w \in Producers THEN results_queue[w] ELSE <<>>)
                        \o extra[w]
        IN  IF sent = <<>> THEN published[w] ELSE sent[Len(sent)]]

\* what the drain loop leaves on the results queues
Undrained ==
    [w \in WorkerIds |-> IF w \in Producers THEN <<>> ELSE results_queue[w]]

NoExtra == [w \in WorkerIds |-> <<>>]

\* the status test that opens step()
StepAllowed(st) == st \in {Empty, PAUSED}

\* SimulationManager.step : one child process per pool entry, join them all,
\* _collect_immediate_results, clear_simulation
step ==
    /\ mgr = "idle"
    /\ IF StepAllowed(status)
       THEN /\ gen < MaxGen
            /\ LET runs == [w \in simulations |->
                               ExecuteSingleStep(w, ManagerCopy(w))]
               IN  /\ published' =
                        Drained([w \in WorkerIds |->
                                    IF w \in simulations THEN runs[w].put
                                    ELSE <<>>])
                   /\ lastStep' = {runs[w] : w \in simulations}
            /\ worker' = [w \in WorkerIds |-> Dropped(worker[w])]
            /\ results_queue' = [w \in WorkerIds |->
                                    IF worker'[w].proc = "started"
                                    THEN Undrained[w] ELSE <<>>]
            /\ clear_simulation
            /\ raised' = Ok("step")
       ELSE /\ raised' = Raise("step", "ConfigError")
            /\ UNCHANGED <<status, simulations, gen, control_queue,
                           results_queue, collector, published, lastStep,
                           worker>>
    /\ UNCHANGED <<config, mgr>>

\* SimulationManager._collect_results : the scheduled Clock callback
collect_results ==
    /\ mgr = "idle"
    /\ collector
    /\ IF status # RUNNING
       THEN /\ collector' = FALSE
            /\ UNCHANGED <<results_queue, published>>
       ELSE /\ published' = Drained(NoExtra)
            /\ results_queue' = Undrained
            /\ UNCHANGED collector
    /\ UNCHANGED <<status, config, simulations, gen, control_queue, mgr,
                   raised, lastStep, worker>>

(* --------------------------- specification ----------------------------- *)
\* SimulationManager() followed by reset_user_configs(), as main.py does
Init ==
    /\ status = Empty
    /\ config = [grid |-> None, node |-> None, message_spawner |-> None,
                 target_spawner |-> None, node_count |-> 1, step_count |-> 1]
    /\ simulations = {}
    /\ gen = 0
    /\ control_queue = [g \in Gens |-> <<>>]
    /\ results_queue = [w \in WorkerIds |-> <<>>]
    /\ collector = FALSE
    /\ mgr = "idle"
    /\ raised = Ok("reset_user_configs")
    /\ published = [w \in WorkerIds |-> NoSnapshot]
    /\ ui = "idle"
    /\ NoSimulation
    /\ lastStep = {}
    /\ worker = [w \in WorkerIds |-> NoWorker]

\* the manager once grid, node and message spawner have been chosen
InitConfigured ==
    \E sc \in StepCountValues :
    /\ status = Empty
    /\ config = [grid |-> "grid", node |-> "node",
                 message_spawner |-> "spawner", target_spawner |-> "targets",
                 node_count |-> 1, step_count |-> sc]
    /\ simulations = {}
    /\ gen = 0
    /\ control_queue = [g \in Gens |-> <<>>]
    /\ results_queue = [w \in WorkerIds |-> <<>>]
    /\ collector = FALSE
    /\ mgr = "idle"
    /\ raised = Ok("set_message_spawner")
    /\ published = [w \in WorkerIds |-> NoSnapshot]
    /\ ui = "idle"
    /\ NoSimulation
    /\ lastStep = {}
    /\ worker = [w \in WorkerIds |-> NoWorker]

\* the manager's operations alone, called in any order from construction
\* on: the worker processes it starts are given no time to run
NextConfig ==
    /\ \/ set_grid
       \/ set_node
       \/ set_message_spawner
       \/ set_target_spawner
       \/ set_node_count
       \/ set_step_count
       \/ create_simulations
       \/ play
       \/ pause
       \/ stop_begin
       \/ stop_end
       \/ step
       \/ collect_results
    /\ UNCHANGED <<ui, simVars>>

SpecConfig == Init /\ [][NextConfig]_vars

\* the three settings create_simulations tests and the lifecycle
\* operations, called in any order from construction on
NextCreate ==
    /\ \/ set_grid
       \/ set_node
       \/ set_message_spawner
       \/ create_simulations
       \/ play
       \/ pause
       \/ stop_begin
       \/ stop_end
    /\ UNCHANGED <<ui, simVars>>

SpecCreate == Init /\ [][NextCreate]_vars

\* the lifecycle operations alone of a configured manager, called in any
\* order: the worker processes it starts are given no time to run
NextLifecycle ==
    /\ \/ create_simulations
       \/ play
       \/ pause
       \/ stop_begin
       \/ stop_end
       \/ step
       \/ collect_results
    /\ UNCHANGED <<ui, simVars>>

SpecLifecycle == InitConfigured /\ [][NextLifecycle]_vars

\* a configured manager whose operations are called in any order, and its
\* worker processes
Next ==
    /\ \/ create_simulations
       \/ play
       \/ pause
       \/ stop_begin
       \/ stop_end
       \/ step
       \/ collect_results
       \/ \E w \in WorkerIds : WorkerNext(w)
    /\ UNCHANGED <<ui, simVars>>

Spec == InitConfigured /\ [][Next]_vars

\* the same program with its scheduling: a process that can run its loop
\* does so, and the Clock calls the scheduled collector; the calls of the
\* user are under no obligation to happen
SpecScheduled ==
    /\ InitConfigured
    /\ [][Next]_vars
    /\ \A w \in WorkerIds :
          WF_vars(WorkerNext(w) /\ UNCHANGED <<ui, simVars>>)
    /\ WF_vars(collect_results /\ UNCHANGED <<ui, simVars>>)

\* the same, with worker steps that may raise an exception
NextFault ==
    \/ Next
    \/ \E w \in WorkerIds : WorkerFault(w) /\ UNCHANGED <<ui, simVars>>

SpecFault == InitConfigured /\ [][NextFault]_vars

\* BottomBarController._handle_simulation_status, "play" and "step": first
\* create_simulations; the handler ends there when that raises
ui_create ==
    \E kind \in {"play", "step"} :
        /\ ui = "idle"
        /\ create_simulations
        /\ ui' = IF raised'.error = None THEN kind ELSE "idle"

\* _handle_simulation_status, "play": then play()
ui_play == ui = "play" /\ play /\ ui' = "idle"

\* _handle_simulation_status, "step": then step()
ui_step == ui = "step" /\ step /\ ui' = "idle"

\* _handle_simulation_status, "pause"
ui_pause == ui = "idle" /\ pause /\ UNCHANGED ui

\* _handle_simulation_status, "stop"
ui_stop ==
    /\ ui = "idle"
    /\ stop_begin \/ stop_end
    /\ UNCHANGED ui

\* the application: a configured manager driven by the buttons of the bottom
\* bar, the Clock callback and the worker processes
NextUI ==
    /\ \/ ui_create
       \/ ui_play
       \/ ui_step
       \/ ui_pause
       \/ ui_stop
       \/ ui = "idle" /\ collect_results /\ UNCHANGED ui
       \/ \E w \in WorkerIds : WorkerNext(w) /\ UNCHANGED ui
    /\ UNCHANGED simVars

SpecUI == InitConfigured /\ [][NextUI]_vars

(* ---------------------- messages and node buffers ----------------------- *)
\* node objects of one grid, message objects one worker creates, and the
\* largest value given to the Max TTL setting
MaxNodes == 2
MaxMessages == 2
MaxTtl == 2
\* hops a message may have when a further exchange is started
MaxHops == 2

NodeIds == 1..MaxNodes
ObjIds == 1..MaxMessages

\* BaseMessage._props : the dict created once in the class body. No method
\* gives an instance a dict of its own except the props setter, which only
\* deserialize calls, so message.props of every message is this one dict.
ClassProps == "BaseMessage._props"

\* BaseMessage.__init__ : a new message object (hops is the class default)
NewMessage(o) == [id |-> o, hops |-> 0, props |-> ClassProps]

\* message.props["ttl"] of message object o in heap h
Ttl(h, o) == h.dicts[h.msgs[o].props]

\* message.props["ttl"] = v
SetTtl(h, o, v) == [h EXCEPT !.dicts[h.msgs[o].props] = v]

\* a Python dict as the sequence of its items in insertion order
Keys(d) == [i \in 1..Len(d) |-> d[i].key]
HasKey(d, k) == \E i \in 1..Len(d) : d[i].key = k
IndexOf(d, k) == CHOOSE i \in 1..Len(d) : d[i].key = k

\* d[k] = v : an existing key keeps its place
Put(d, k, v) ==
    IF HasKey(d, k)
    THEN [i \in 1..Len(d) |-> IF d[i].key = k THEN [key |-> k, value |-> v]
                                ELSE d[i]]
    ELSE Append(d, [key |-> k, value |-> v])

\* del d[k]
RECURSIVE Del(_, _)
Del(d, k) ==
    IF d = <<>> THEN <<>>
    ELSE IF Head(d).key = k THEN Tail(d)
    ELSE <<Head(d)>> \o Del(Tail(d), k)

\* increment_hops : message.hops += 1 for every element of the list
RECURSIVE increment_hops(_, _)
increment_hops(h, messages) ==
    IF messages = <<>> THEN h
    ELSE increment_hops([h EXCEPT !.msgs[Head(messages)].hops = @ + 1],
                        Tail(messages))


(* --------------------- SprayAndWaitLimitedNode -------------------------- *)
\* values of the "Msg Selection Strategy" setting
Strategies == {"First", "Last", "All"}

\* SprayAndWaitLimitedNode.min_ttl
min_ttl == 0

\* SprayAndWaitLimitedNode.__init__
NewLimitedNode == [messages |-> <<>>, recent_senders |-> {}, is_full |-> FALSE]

\* the result of a node method: the node afterwards and the heap afterwards
NodeHeap(nd, h) == [node |-> nd, heap |-> h]

\* what a method returns that is either None or a list: Nothing for None,
\* Some(list) for a list
Nothing == <<>>
Some(list) == <<list>>

\* SprayAndWaitLimitedNode.send_message of node record nd towards the node
\* with id receiver
Limited_send_message(nd, receiver, strategy) ==
    IF receiver \in nd.recent_senders THEN Nothing
    ELSE IF nd.messages = <<>> THEN Nothing
    ELSE IF strategy = "First" THEN Some(<<nd.messages[1].key>>)
    ELSE IF strategy = "Last"
         THEN Some(<<nd.messages[Len(nd.messages)].key>>)
    ELSE Some(Keys(nd.messages))

\* the loop of receive_message over the received list
RECURSIVE Limited_receive_each(_, _, _, _)
Limited_receive_each(nd, h, messages, max_ttl) ==
    IF messages = <<>> THEN NodeHeap(nd, h)
    ELSE IF nd.is_full
         THEN Limited_receive_each(nd, h, Tail(messages), max_ttl)
         ELSE Limited_receive_each(
                 [nd EXCEPT !.messages = Put(@, Head(messages), 1)],
                 SetTtl(h, Head(messages), max_ttl),
                 Tail(messages), max_ttl)

\* SprayAndWaitLimitedNode.receive_message : the objects of the list are
\* stored as they are, and _recent_senders is emptied on the last line
Limited_receive_message(nd, h, messages, sender, max_ttl) ==
    LET r == Limited_receive_each(
                 [nd EXCEPT !.recent_senders = @ \cup {sender}],
                 h, messages, max_ttl)
    IN  NodeHeap([r.node EXCEPT !.recent_senders = {}], r.heap)

\* SprayAndWaitLimitedNode.on_message_create
Limited_on_message_create(nd, h, o, max_ttl) ==
    IF nd.is_full THEN NodeHeap(nd, h)
    ELSE LET stored == Put(nd.messages, o, 1)
         IN  NodeHeap([nd EXCEPT !.messages = stored,
                                 !.is_full = (Len(stored) >= max_ttl)],
                      SetTtl(h, o, max_ttl))

\* SprayAndWaitLimitedNode.on_collision_complete
Limited_on_collision_complete(nd) == [nd EXCEPT !.recent_senders = {}]

\* first loop of on_simulation_step_end: message.props["ttl"] -= 1 for
\* every key of the buffer
RECURSIVE Limited_decrement(_, _)
Limited_decrement(h, keys) ==
    IF keys = <<>> THEN h
    ELSE Limited_decrement(SetTtl(h, Head(keys), Ttl(h, Head(keys)) - 1),
                           Tail(keys))

\* second loop of on_simulation_step_end: delete the messages whose TTL is
\* at or below min_ttl
RECURSIVE Limited_drop(_, _, _)
Limited_drop(d, h, keys) ==
    IF keys = <<>> THEN d
    ELSE Limited_drop(IF Ttl(h, Head(keys)) <= min_ttl
                      THEN Del(d, Head(keys)) ELSE d,
                      h, Tail(keys))

\* SprayAndWaitLimitedNode.on_simulation_step_end
Limited_on_simulation_step_end(nd, h, max_ttl) ==
    LET h2 == Limited_decrement(h, Keys(nd.messages))
        kept == Limited_drop(nd.messages, h2, Keys(nd.messages))
    IN  NodeHeap([nd EXCEPT !.messages = kept,
                            !.is_full = IF Len(kept) < max_ttl THEN FALSE
                                        ELSE @],
                 h2)


\* the worker's view of the buffer of node record nd: id, hops and TTL of
\* every message the node holds, in buffer order
View(nd, h) ==
    [i \in 1..Len(nd.messages) |->
        [id |-> h.msgs[nd.messages[i].key].id,
         hops |-> h.msgs[nd.messages[i].key].hops,
         ttl |-> Ttl(h, nd.messages[i].key),
         count |-> nd.messages[i].value]]

\* a grid of Spray-and-Wait-Limited nodes with empty buffers, for every
\* value of the two settings
InitLimited ==
    /\ status = Empty
    /\ config = [grid |-> "grid", node |-> "Spray N Wait Limited",
                 message_spawner |-> "spawner", target_spawner |-> None,
                 node_count |-> MaxNodes, step_count |-> 1]
    /\ simulations = {}
    /\ gen = 0
    /\ control_queue = [g \in Gens |-> <<>>]
    /\ results_queue = [w \in WorkerIds |-> <<>>]
    /\ collector = FALSE
    /\ mgr = "idle"
    /\ raised = Ok("set_node")
    /\ published = [w \in WorkerIds |-> NoSnapshot]
    /\ ui = "idle"
    /\ lastStep = {}
    /\ worker = [w \in WorkerIds |-> NoWorker]
    /\ nodes = [n \in NodeIds |-> NewLimitedNode]
    /\ heap = [msgs |-> <<>>, dicts |-> [d \in {ClassProps} |-> None]]
    /\ grid = <<>>
    /\ \E t \in 1..MaxTtl, st \in Strategies :
          sim = [max_ttl |-> t, strategy |-> st]

\* _spawn_messages_in_nodes for node n: a new message object is handed to
\* on_message_create
LimitedSpawn(n) ==
    /\ Len(heap.msgs) < MaxMessages
    /\ LET o == Len(heap.msgs) + 1
           h == [heap EXCEPT !.msgs = Append(@, NewMessage(o))]
           r == Limited_on_message_create(nodes[n], h, o, sim.max_ttl)
       IN  /\ nodes' = [nodes EXCEPT ![n] = r.node]
           /\ heap' = r.heap
    /\ UNCHANGED <<procVars, grid, sim>>

\* _simulate_step, the simple exchange of the pair (a, b) and its
\* on_collision_complete calls: a sends to b, then b sends to a
LimitedExchange(a, b) ==
    /\ a < b
    /\ \A o \in 1..Len(heap.msgs) : heap.msgs[o].hops < MaxHops
    /\ LET m1 == Limited_send_message(nodes[a], b, sim.strategy)
           r1 == IF m1 = Nothing THEN NodeHeap(nodes[b], heap)
                 ELSE LET r == Limited_receive_message(nodes[b], heap, m1[1],
                                                       a, sim.max_ttl)
                      IN  NodeHeap(r.node, increment_hops(r.heap, m1[1]))
           m2 == Limited_send_message(r1.node, a, sim.strategy)
           r2 == IF m2 = Nothing THEN NodeHeap(nodes[a], r1.heap)
                 ELSE LET r == Limited_receive_message(nodes[a], r1.heap,
                                                       m2[1], b, sim.max_ttl)
                      IN  NodeHeap(r.node, increment_hops(r.heap, m2[1]))
       IN  /\ nodes' = [nodes EXCEPT
                          ![a] = Limited_on_collision_complete(r2.node),
                          ![b] = Limited_on_collision_complete(r1.node)]
           /\ heap' = r2.heap
    /\ UNCHANGED <<procVars, grid, sim>>

\* on_simulation_step_end of node n
LimitedStepEnd(n) ==
    /\ LET r == Limited_on_simulation_step_end(nodes[n], heap, sim.max_ttl)
       IN  /\ nodes' = [nodes EXCEPT ![n] = r.node]
           /\ heap' = r.heap
    /\ UNCHANGED <<procVars, grid, sim>>

NextLimited ==
    \/ \E n \in NodeIds : LimitedSpawn(n)
    \/ \E a, b \in NodeIds : LimitedExchange(a, b)
    \/ \E n \in NodeIds : LimitedStepEnd(n)

SpecLimited == InitLimited /\ [][NextLimited]_vars


(* ------------------------------- grid ---------------------------------- *)
\* bounds: the side of the grid (width and length, positions are whole
\* numbers 0..MaxCoord) and the number of node moves followed
MaxCoord == 1
MaxMoves == 1

\* the values of the settings the grid and its nodes run with
region_size == 1
detection_range == 1
movement_range == 1

Coords == 0..MaxCoord
Positions == Coords \X Coords
Deltas == (0 - movement_range)..movement_range

\* the manager and process variables while one worker's step is looked at
\* from the inside
InsideWorker ==
    /\ status = Empty
    /\ config = [grid |-> "grid", node |-> "node",
                 message_spawner |-> "spawner", target_spawner |-> None,
                 node_count |-> MaxNodes, step_count |-> 1]
    /\ simulations = {}
    /\ gen = 0
    /\ control_queue = [g \in Gens |-> <<>>]
    /\ results_queue = [w \in WorkerIds |-> <<>>]
    /\ collector = FALSE
    /\ mgr = "idle"
    /\ raised = Ok("set_node")
    /\ published = [w \in WorkerIds |-> NoSnapshot]
    /\ ui = "idle"
    /\ lastStep = {}
    /\ worker = [w \in WorkerIds |-> NoWorker]

\* BaseSimulationGrid._get_region
get_region(x, y) == <<x \div region_size, y \div region_size>>

\* math.ceil(a / b) for positive b
Ceil(a, b) == (a + b - 1) \div b

\* BaseSimulationGrid._get_neighbors: the region and the regions around it
\* that lie inside the grid, in the order of the two loops
get_neighbors(g, region) ==
    LET cand == [k \in 1..9 |-> <<region[1] + ((k - 1) \div 3) - 1,
                                  region[2] + ((k - 1) % 3) - 1>>]
        inside(r) == /\ 0 <= r[1] /\ r[1] < Ceil(g.width, region_size)
                     /\ 0 <= r[2] /\ r[2] < Ceil(g.length, region_size)
    IN  SelectSeq(cand, inside)

\* the region list of a region; a region without a key has no nodes
RegionList(g, region) ==
    IF region \in DOMAIN g.grid THEN g.grid[region] ELSE <<>>

\* BaseSimulationGrid.add_node_to_grid
add_node_to_grid(g, nd, n) ==
    LET region == get_region(nd[n].position[1], nd[n].position[2])
    IN  [g EXCEPT !.grid =
            [r \in DOMAIN g.grid \cup {region} |->
                IF r = region THEN Append(RegionList(g, r), n)
                ELSE g.grid[r]]]

\* SimpleRandomGrid.place_node for the nodes 1..k in turn
RECURSIVE place_nodes(_, _, _)
place_nodes(g, nd, k) ==
    IF k = 0 THEN g
    ELSE LET g1 == place_nodes(g, nd, k - 1)
         IN  IF /\ 0 <= nd[k].position[1] /\ nd[k].position[1] <= g1.width
                /\ 0 <= nd[k].position[2] /\ nd[k].position[2] <= g1.length
             THEN add_node_to_grid(g1, nd, k)
             ELSE g1

\* math.dist(p, q) <= range, on squares
WithinRange(p, q, range) ==
    (p[1] - q[1]) * (p[1] - q[1]) + (p[2] - q[2]) * (p[2] - q[2])
        <= range * range

\* SimpleRandomGrid.detect_collision: the nodes of the lists of the
\* neighbouring regions that are within the detection range of node n
RECURSIVE detect_in(_, _, _, _)
detect_in(g, nd, n, regions) ==
    IF regions = <<>> THEN <<>>
    ELSE LET near(m) == /\ m # n
                        /\ WithinRange(nd[n].position, nd[m].position,
                                       detection_range)
         IN  SelectSeq(RegionList(g, Head(regions)), near)
                \o detect_in(g, nd, n, Tail(regions))

detect_collision(g, nd, n) ==
    detect_in(g, nd, n,
              get_neighbors(g, get_region(nd[n].position[1],
                                          nd[n].position[2])))

\* a pair kept in the order of its detection
PairAsDetected(node, other_node) == <<node, other_node>>

\* Phase 1 of _simulate_step, the pair of one detection: the node with
\* the smaller id comes first
CollisionPair(node, other_node) ==
    IF node < other_node THEN <<node, other_node>>
    ELSE <<other_node, node>>

\* Phase 1, the inner loop over the nodes one node detected
RECURSIVE add_pairs(_, _, _)
add_pairs(pairs, node, colliding_nodes) ==
    IF colliding_nodes = <<>> THEN pairs
    ELSE LET other_node == Head(colliding_nodes)
             rest == Tail(colliding_nodes)
         IN  IF node = other_node THEN add_pairs(pairs, node, rest)
             ELSE add_pairs(pairs \cup {CollisionPair(node, other_node)},
                            node, rest)

\* Phase 1, the outer loop over grid.nodes 1..k
RECURSIVE collect_pairs(_, _, _)
collect_pairs(g, nd, k) ==
    IF k = 0 THEN {}
    ELSE add_pairs(collect_pairs(g, nd, k - 1), k,
                   detect_collision(g, nd, k))

\* BaseNode.move: the position changes by a delta within the movement
\* range in each direction, nothing else does
move(nd, n, dx, dy) ==
    [nd EXCEPT ![n].position = <<@[1] + dx, @[2] + dy>>]

\* the grid a worker deserializes: the nodes at their placed positions and
\* every node in the region list of its position
InitGrid ==
    /\ InsideWorker
    /\ nodes \in [NodeIds -> [position : Positions]]
    /\ grid = place_nodes([width |-> MaxCoord, length |-> MaxCoord,
                           grid |-> <<>>], nodes, MaxNodes)
    /\ heap = <<>>
    /\ sim = [collision_pairs |-> {}, moves |-> 0]

\* Phase 1 of _simulate_step
GridCollect ==
    /\ sim' = [sim EXCEPT
                 !.collision_pairs = collect_pairs(grid, nodes, MaxNodes)]
    /\ UNCHANGED <<procVars, nodes, heap, grid>>

\* the end of a step in simulate(): node n moves; the pair set of the step
\* is gone. The moves followed here are those that end on the grid; Walk
\* follows them all.
GridMove(n) ==
    /\ sim.moves < MaxMoves
    /\ \E dx, dy \in Deltas :
          /\ nodes[n].position[1] + dx \in Coords
          /\ nodes[n].position[2] + dy \in Coords
          /\ nodes' = move(nodes, n, dx, dy)
    /\ sim' = [collision_pairs |-> {}, moves |-> sim.moves + 1]
    /\ UNCHANGED <<procVars, heap, grid>>

NextGrid ==
    \/ GridCollect
    \/ \E n \in NodeIds : GridMove(n)

SpecGrid == InitGrid /\ [][NextGrid]_vars

\* the end of a step in simulate(): node n moves, by whatever move() draws
Walk(n) ==
    /\ sim.moves < MaxMoves
    /\ \E dx, dy \in Deltas : nodes' = move(nodes, n, dx, dy)
    /\ sim' = [collision_pairs |-> {}, moves |-> sim.moves + 1]
    /\ UNCHANGED <<procVars, heap, grid>>

NextWalk == \E n \in NodeIds : Walk(n)

SpecWalk == InitGrid /\ [][NextWalk]_vars

(* ------------------------- collision exchange -------------------------- *)
\* entries the list of delivered messages may have when a further exchange
\* is started, and messages spawned while exchanges are followed
MaxSuccess == 2
MaxSpawned == 1

\* a method of the node interface was not called
NotCalled == "not called"

\* one call the worker makes on a node: what it returned (None, a dict or
\* a list) and the messages of the list returned or, for a receiving
\* method, passed in
Call(method, node, value, messages) ==
    [method |-> method, node |-> node, value |-> value,
     messages |-> messages]

\* a node as the worker sees it: the target flag and the messages it holds
NewNode(t) == [target |-> t, messages |-> {}]

\* the elements of a list
Range(s) == {s[i] : i \in 1..Len(s)}

RECURSIVE SortedSeq(_)
SortedSeq(S) ==
    IF S = {} THEN <<>>
    ELSE LET m == CHOOSE x \in S : \A y \in S : x <= y
         IN  <<m>> \o SortedSeq(S \ {m})

\* what a method declared as returning List[BaseMessage] | None returns
\* for a node that holds the messages in held: None, or the list of them
Offers(held) == {Nothing, Some(SortedSeq(held))}

\* BaseNode.send_message and BaseNode.send_requested_messages
send_message(nd, n) == Offers(nd[n].messages)
send_requested_messages(nd, n) == Offers(nd[n].messages)

\* BaseNode.on_send_to_target: a node offers messages it holds to the
\* target; a node that is itself a target holds delivered messages only
\* and hands none of them on
on_send_to_target(nd, n) ==
    IF nd[n].target THEN {Nothing} ELSE Offers(nd[n].messages)

\* BaseNode.receive_message and BaseNode.on_receive_as_target: the node
\* holds the messages of the list from now on
receive_message(nd, n, messages) ==
    [nd EXCEPT ![n].messages = @ \cup Range(messages)]
on_receive_as_target(nd, n, messages) ==
    [nd EXCEPT ![n].messages = @ \cup Range(messages)]

\* BaseNode.pre_collision and BaseNode.process_pre_collision return a dict
\* or None
Replies == {None, "dict"}

\* the pairs Phase 1 can produce and the shuffled lists made of them
CanonicalPairs == {p \in NodeIds \X NodeIds : p[1] < p[2]}
PairLists ==
    {s \in UNION {[1..k -> CanonicalPairs] :
                     k \in 0..Cardinality(CanonicalPairs)} :
        \A i, j \in DOMAIN s : i # j => s[i] # s[j]}

\* Phase 2 runs for every pair, targets included
SkipsNothing(nd, a, b) == FALSE

\* Phase 2 of _simulate_step: a pair with a target is skipped
SkipsPreCollision(nd, a, b) == nd[a].target \/ nd[b].target

\* Phase 3 takes no pair through the target interface
TargetInterfaceNever(nd, a, b) == FALSE

\* Phase 3 of _simulate_step: a pair with a target goes through the
\* target interface
TargetInterface(nd, a, b) == nd[a].target \/ nd[b].target

\* one valid answer is enough
EitherValid(x, y) == x # None \/ y # None

\* Phase 2: both answers are not None
BothValid(x, y) == x # None /\ y # None

\* Phase 2 for the pair (a, b), where the nodes answer ma and mb to
\* pre_collision and ra and rb to process_pre_collision: the calls made
\* and whether the requests are stored
PreCollision(nd, a, b, ma, mb, ra, rb) ==
    IF SkipsPreCollision(nd, a, b)
    THEN [calls |-> <<>>, stored |-> FALSE]
    ELSE IF BothValid(ma, mb)
    THEN [calls |-> <<Call("pre_collision", a, ma, <<>>),
                      Call("pre_collision", b, mb, <<>>),
                      Call("process_pre_collision", a, ra, <<>>),
                      Call("process_pre_collision", b, rb, <<>>)>>,
          stored |-> BothValid(ra, rb)]
    ELSE [calls |-> <<Call("pre_collision", a, ma, <<>>),
                      Call("pre_collision", b, mb, <<>>)>>,
          stored |-> FALSE]

\* Phase 3, one direction of a pair with a target: the answer m of
\* on_send_to_target of the sender, if not None, goes to the target, its
\* messages get a hop and are added to success_messages
Deliver(st, sender, target, m) ==
    IF m = NotCalled THEN st
    ELSE IF m = Nothing
    THEN [st EXCEPT
            !.calls = Append(@, Call("on_send_to_target", sender, None, <<>>))]
    ELSE [nodes |-> on_receive_as_target(st.nodes, target, m[1]),
          heap |-> increment_hops(st.heap, m[1]),
          calls |-> st.calls
                      \o <<Call("on_send_to_target", sender, "list", m[1]),
                           Call("on_receive_as_target", target, None, m[1])>>,
          success_messages |-> st.success_messages \o m[1]]

\* Phase 3, one direction of a pair without a target: the answer m of the
\* sender's method, if not None, goes to the receiver and its messages get
\* a hop
Exchange(st, method, sender, receiver, m) ==
    IF m = Nothing
    THEN [st EXCEPT !.calls = Append(@, Call(method, sender, None, <<>>))]
    ELSE [nodes |-> receive_message(st.nodes, receiver, m[1]),
          heap |-> increment_hops(st.heap, m[1]),
          calls |-> st.calls
                      \o <<Call(method, sender, "list", m[1]),
                           Call("receive_message", receiver, None, m[1])>>,
          success_messages |-> st.success_messages]

\* the position in the pair list after the pair at sim.i, in phase pc
Advance(pc, then) ==
    IF sim.i = Len(sim.pairs)
    THEN [sim EXCEPT !.pc = then, !.i = 1]
    ELSE [sim EXCEPT !.i = @ + 1]

\* Phase 3, the end of a pair: on_collision_complete on both nodes
CollisionComplete(st, a, b) ==
    /\ nodes' = st.nodes
    /\ heap' = st.heap
    /\ sim' = [Advance("exchange", "end") EXCEPT
                 !.calls = st.calls
                             \o <<Call("on_collision_complete", a, None, <<>>),
                                  Call("on_collision_complete", b, None, <<>>)>>,
                 !.success_messages = st.success_messages]

\* a worker's grid as deserialized: target and other nodes, no messages
InitExchange ==
    /\ InsideWorker
    /\ nodes \in [NodeIds -> {NewNode(t) : t \in BOOLEAN}]
    /\ heap = [msgs |-> <<>>, dicts |-> [d \in {ClassProps} |-> None]]
    /\ grid = <<>>
    /\ sim = [pc |-> "idle", pairs |-> <<>>, i |-> 1,
              pre_collision_data |-> {}, calls |-> <<>>,
              success_messages |-> <<>>]

\* spawn_messages: a node that is not a target gets a new message
ExSpawn(n) ==
    /\ sim.pc = "idle"
    /\ ~nodes[n].target
    /\ Len(heap.msgs) < MaxSpawned
    /\ LET o == Len(heap.msgs) + 1
       IN  /\ heap' = [heap EXCEPT !.msgs = Append(@, NewMessage(o))]
           /\ nodes' = [nodes EXCEPT ![n].messages = @ \cup {o}]
    /\ UNCHANGED <<procVars, grid, sim>>

\* Phase 1 of _simulate_step as far as the exchange sees it: a shuffled
\* list of pairs
ExCollide ==
    /\ sim.pc = "idle"
    /\ \E pairs \in PairLists :
          sim' = [sim EXCEPT
                    !.pc = IF pairs = <<>> THEN "end" ELSE "pre",
                    !.pairs = pairs, !.i = 1]
    /\ UNCHANGED <<procVars, nodes, heap, grid>>

\* Phase 2 for the pair at sim.i
ExPre ==
    /\ sim.pc = "pre"
    /\ \E ma, mb, ra, rb \in Replies :
          LET p == sim.pairs[sim.i]
              r == PreCollision(nodes, p[1], p[2], ma, mb, ra, rb)
          IN  sim' = [Advance("pre", "exchange") EXCEPT
                        !.pre_collision_data =
                            IF r.stored THEN @ \cup {p} ELSE @,
                        !.calls = r.calls]
    /\ UNCHANGED <<procVars, nodes, heap, grid>>

\* Phase 3 for the pair at sim.i
ExExchange ==
    /\ sim.pc = "exchange"
    /\ \A o \in 1..Len(heap.msgs) : heap.msgs[o].hops < MaxHops
    /\ Len(sim.success_messages) < MaxSuccess
    /\ LET a == sim.pairs[sim.i][1]
           b == sim.pairs[sim.i][2]
           st == [nodes |-> nodes, heap |-> heap, calls |-> <<>>,
                  success_messages |-> sim.success_messages]
       IN  IF TargetInterface(nodes, a, b)
           THEN \E m1 \in (IF nodes[a].target
                           THEN on_send_to_target(nodes, b)
                           ELSE {NotCalled}) :
                   LET st1 == Deliver(st, b, a, m1)
                   IN  \E m2 \in (IF nodes[b].target
                                  THEN on_send_to_target(st1.nodes, a)
                                  ELSE {NotCalled}) :
                          CollisionComplete(Deliver(st1, a, b, m2), a, b)
           ELSE IF <<a, b>> \in sim.pre_collision_data
           THEN \E m1 \in send_requested_messages(nodes, a) :
                   LET st1 == Exchange(st, "send_requested_messages",
                                       a, b, m1)
                   IN  \E m2 \in send_requested_messages(st1.nodes, b) :
                          CollisionComplete(
                              Exchange(st1, "send_requested_messages",
                                       b, a, m2), a, b)
           ELSE \E m1 \in send_message(nodes, a) :
                   LET st1 == Exchange(st, "send_message", a, b, m1)
                   IN  \E m2 \in send_message(st1.nodes, b) :
                          CollisionComplete(
                              Exchange(st1, "send_message", b, a, m2), a, b)
    /\ UNCHANGED <<procVars, grid>>

\* Phase 4 and the end of the step: the pair list and what Phase 2 stored
\* are gone
ExStepEnd ==
    /\ sim.pc = "end"
    /\ sim' = [sim EXCEPT !.pc = "idle", !.pairs = <<>>, !.i = 1,
                          !.pre_collision_data = {}, !.calls = <<>>]
    /\ UNCHANGED <<procVars, nodes, heap, grid>>

NextExchange ==
    \/ \E n \in NodeIds : ExSpawn(n)
    \/ ExCollide
    \/ ExPre
    \/ ExExchange
    \/ ExStepEnd

SpecExchange == InitExchange /\ [][NextExchange]_vars

\* a grid with one node more, so that two pairs of one step can share a node
ChainIds == 1..(MaxNodes + 1)
ChainPairs == {p \in ChainIds \X ChainIds : p[1] < p[2]}

\* the shuffled lists of two pairs that have a node in common
ChainPairLists ==
    {s \in [1..2 -> ChainPairs] :
        s[1] # s[2] /\ {s[1][1], s[1][2]} \cap {s[2][1], s[2][2]} # {}}

\* a worker's grid as deserialized, without targets: every pair goes
\* through Phase 2
InitChain ==
    /\ InsideWorker
    /\ nodes = [n \in ChainIds |-> NewNode(FALSE)]
    /\ heap = [msgs |-> <<>>, dicts |-> [d \in {ClassProps} |-> None]]
    /\ grid = <<>>
    /\ sim = [pc |-> "idle", pairs |-> <<>>, i |-> 1,
              pre_collision_data |-> {}, calls |-> <<>>,
              success_messages |-> <<>>]

\* Phase 1 as far as the exchange sees it, for a step with two pairs
ChainCollide ==
    /\ sim.pc = "idle"
    /\ \E pairs \in ChainPairLists :
          sim' = [sim EXCEPT !.pc = "pre", !.pairs = pairs, !.i = 1]
    /\ UNCHANGED <<procVars, nodes, heap, grid>>

NextChain ==
    \/ \E n \in ChainIds : ExSpawn(n)
    \/ ChainCollide
    \/ ExPre
    \/ ExExchange
    \/ ExStepEnd

SpecChain == InitChain /\ [][NextChain]_vars

(* --------------------------- SprayAndWaitNode --------------------------- *)
\* the copy count an entry may have when a further list is received
MaxCopies == 2

\* BaseNode.messages : the dict created once in the class body.
\* SprayAndWaitNode never assigns self.messages, so self.messages of every
\* node is this one dict, from sender id to a list of [message, count].
ClassMessages == <<>>

\* SprayAndWaitNode.__init__
NewSprayNode == [_recent_senders |-> {}]

\* d[k] of a dict that has the key k
Get(d, k) == d[IndexOf(d, k)].value

\* receive_message, the inner loop: the place of the first entry of the
\* list with the id of message object o, 0 if there is none
ExistingEntry(h, list, o) ==
    IF \E i \in 1..Len(list) : h.msgs[list[i].message].id = h.msgs[o].id
    THEN CHOOSE i \in 1..Len(list) :
            /\ h.msgs[list[i].message].id = h.msgs[o].id
            /\ \A j \in 1..(i - 1) :
                  h.msgs[list[j].message].id # h.msgs[o].id
    ELSE 0

\* receive_message, the loop over the received list: the count of an
\* entry that exists goes up by one, a new entry starts with count 1
RECURSIVE Spray_receive_each(_, _, _)
Spray_receive_each(h, list, messages) ==
    IF messages = <<>> THEN list
    ELSE LET o == Head(messages)
             i == ExistingEntry(h, list, o)
         IN  Spray_receive_each(
                 h,
                 IF i # 0 THEN [list EXCEPT ![i].count = @ + 1]
                 ELSE Append(list, [message |-> o, count |-> 1]),
                 Tail(messages))

\* SprayAndWaitNode.receive_message: gives the node and the buffer
\* afterwards
Spray_receive_message(nd, h, messages, sending_node) ==
    LET d == IF HasKey(h.messages, sending_node) THEN h.messages
             ELSE Put(h.messages, sending_node, <<>>)
    IN  [node |-> [nd EXCEPT !._recent_senders = {}],
         heap |-> [h EXCEPT !.messages =
                      Put(d, sending_node,
                          Spray_receive_each(h, Get(d, sending_node),
                                             messages))]]

\* SprayAndWaitNode.send_message with strategy "first" or "last": None for
\* a recent sender or an empty buffer, else the first message of the first
\* list that is not empty, or the last message of the last such list
Spray_send_message(nd, h, receiving_node, strategy) ==
    LET filled == SelectSeq(h.messages, LAMBDA e : e.value # <<>>)
    IN  IF receiving_node \in nd._recent_senders THEN Nothing
        ELSE IF h.messages = <<>> \/ filled = <<>> THEN Nothing
        ELSE IF strategy = "first"
        THEN Some(<<filled[1].value[1].message>>)
        ELSE LET last == filled[Len(filled)].value
             IN  Some(<<last[Len(last)].message>>)

\* the lists of message objects a node can be handed
MessageLists(h) ==
    {s \in UNION {[1..k -> 1..Len(h.msgs)] : k \in 1..Len(h.msgs)} :
        \A i, j \in DOMAIN s : i # j => s[i] # s[j]}

InitSpray ==
    /\ InsideWorker
    /\ nodes = [n \in NodeIds |-> NewSprayNode]
    /\ heap = [msgs |-> <<>>, dicts |-> [d \in {ClassProps} |-> None],
               messages |-> ClassMessages]
    /\ grid = <<>>
    /\ sim = <<>>

\* the message spawner makes a new message object from the template
SpraySpawn ==
    /\ Len(heap.msgs) < MaxMessages
    /\ heap' = [heap EXCEPT
                  !.msgs = Append(@, NewMessage(Len(heap.msgs) + 1))]
    /\ UNCHANGED <<procVars, nodes, grid, sim>>

\* receive_message of node n with a list from node s
SprayReceive(n, s) ==
    /\ n # s
    /\ \A k \in 1..Len(heap.messages) :
          \A i \in 1..Len(heap.messages[k].value) :
             heap.messages[k].value[i].count < MaxCopies
    /\ \E messages \in MessageLists(heap) :
          LET r == Spray_receive_message(nodes[n], heap, messages, s)
          IN  /\ nodes' = [nodes EXCEPT ![n] = r.node]
              /\ heap' = r.heap
    /\ UNCHANGED <<procVars, grid, sim>>

NextSpray ==
    \/ SpraySpawn
    \/ \E n, s \in NodeIds : SprayReceive(n, s)

SpecSpray == InitSpray /\ [][NextSpray]_vars

(* -------------------------- SprayAndFocusNode --------------------------- *)
\* encounters a node may have counted with a peer and the time a node may
\* have reached when a further exchange or step end is followed
MaxEncounters == 2
MaxTime == 1

\* values of the "Utility Threshold" setting, in tenths
Thresholds == {3, 5, 7}

\* SprayAndFocusNode.__init__ ; a peer without a key in encounter_counts
\* has count 0 here
NewFocusNode ==
    [messages |-> <<>>, _recent_senders |-> {},
     last_encounter_times |-> [p \in NodeIds |-> 0],
     encounter_counts |-> [p \in NodeIds |-> 0],
     current_time |-> 0]

\* SprayAndFocusNode.calculate_utility, as the fraction <<num, den>>
calculate_utility(nd, node_id) ==
    IF nd.encounter_counts[node_id] = 0 THEN <<0, 1>>
    ELSE LET encounter_frequency == nd.encounter_counts[node_id]
             time_since_last_encounter ==
                 nd.current_time - nd.last_encounter_times[node_id]
         IN  IF encounter_frequency > time_since_last_encounter + 1
             THEN <<1, 1>>
             ELSE <<encounter_frequency, time_since_last_encounter + 1>>

\* utility >= utility_threshold, the threshold given in tenths
AtLeast(utility, threshold) == 10 * utility[1] >= threshold * utility[2]

\* send_message, the candidates of the selection strategy
Candidates(messages, strategy) ==
    IF strategy = "First" THEN <<messages[1].key>>
    ELSE IF strategy = "Last" THEN <<messages[Len(messages)].key>>
    ELSE Keys(messages)

\* [message] * copies
RECURSIVE Repeat(_, _)
Repeat(x, k) == IF k <= 0 THEN <<>> ELSE <<x>> \o Repeat(x, k - 1)

\* send_message, the loop over the candidates: the buffer and the list of
\* messages to send afterwards
RECURSIVE Focus_send_each(_, _, _, _)
Focus_send_each(messages, candidates, forward, out) ==
    IF candidates = <<>> THEN [messages |-> messages, out |-> out]
    ELSE LET message == Head(candidates)
             count == Get(messages, message)
         IN  IF count > 1
             THEN Focus_send_each(
                      Put(messages, message, count - (count \div 2)),
                      Tail(candidates), forward,
                      out \o Repeat(message, count \div 2))
             ELSE IF forward
             THEN Focus_send_each(Put(messages, message, 0),
                                  Tail(candidates), forward,
                                  Append(out, message))
             ELSE Focus_send_each(messages, Tail(candidates), forward, out)

\* a send_message that computes the utility of the peer before it updates
\* the encounter history
Focus_send_message_UtilityFirst(nd, receiving_node, strategy, threshold) ==
    IF receiving_node \in nd._recent_senders \/ nd.messages = <<>>
    THEN [node |-> nd, returned |-> Nothing]
    ELSE LET n1 == [nd EXCEPT
                      !.last_encounter_times[receiving_node] =
                          nd.current_time,
                      !.encounter_counts[receiving_node] = @ + 1]
             r == Focus_send_each(
                      n1.messages, Candidates(n1.messages, strategy),
                      AtLeast(calculate_utility(nd, receiving_node),
                              threshold),
                      <<>>)
         IN  [node |-> [n1 EXCEPT !.messages = r.messages],
              returned |-> IF r.out = <<>> THEN Nothing ELSE Some(r.out)]

\* SprayAndFocusNode.send_message: the node afterwards and what is returned
Focus_send_message(nd, receiving_node, strategy, threshold) ==
    IF receiving_node \in nd._recent_senders \/ nd.messages = <<>>
    THEN [node |-> nd, returned |-> Nothing]
    ELSE LET n1 == [nd EXCEPT
                      !.last_encounter_times[receiving_node] =
                          nd.current_time,
                      !.encounter_counts[receiving_node] = @ + 1]
             r == Focus_send_each(
                      n1.messages, Candidates(n1.messages, strategy),
                      AtLeast(calculate_utility(n1, receiving_node),
                              threshold),
                      <<>>)
         IN  [node |-> [n1 EXCEPT !.messages = r.messages],
              returned |-> IF r.out = <<>> THEN Nothing ELSE Some(r.out)]

\* receive_message, the loop: one copy of every message of the list
RECURSIVE Focus_receive_each(_, _)
Focus_receive_each(messages, list) ==
    IF list = <<>> THEN messages
    ELSE Focus_receive_each(Put(messages, Head(list), 1), Tail(list))

\* SprayAndFocusNode.receive_message
Focus_receive_message(nd, list, sending_node) ==
    [nd EXCEPT !._recent_senders = @ \cup {sending_node},
               !.last_encounter_times[sending_node] = nd.current_time,
               !.encounter_counts[sending_node] = @ + 1,
               !.messages = Focus_receive_each(@, list)]

\* SprayAndFocusNode.on_collision_complete
Focus_on_collision_complete(nd) == [nd EXCEPT !._recent_senders = {}]

\* a node that starts a new message with two copies to spray
Focus_on_message_create_Copies(nd, o) ==
    [nd EXCEPT !.messages = Put(@, o, 2)]

\* SprayAndFocusNode.on_message_create
Focus_on_message_create(nd, o) ==
    [nd EXCEPT !.messages = Put(@, o, 1)]

\* one send_message call as the worker sees it: the sender's buffer and
\* its utility for the peer when the call is made, the candidates, and
\* the buffer and the answer when it returns
SendCall(nd, receiving_node, strategy, r) ==
    [before |-> nd.messages,
     utility |-> calculate_utility(nd, receiving_node),
     selected |-> IF receiving_node \in nd._recent_senders
                     \/ nd.messages = <<>>
                  THEN <<>> ELSE Candidates(nd.messages, strategy),
     after |-> r.node.messages,
     returned |-> r.returned]

InitFocus ==
    /\ InsideWorker
    /\ nodes = [n \in NodeIds |-> NewFocusNode]
    /\ heap = [msgs |-> <<>>, dicts |-> [d \in {ClassProps} |-> None]]
    /\ grid = <<>>
    /\ \E strategy \in Strategies, threshold \in Thresholds :
          sim = [strategy |-> strategy, utility_threshold |-> threshold,
                 calls |-> <<>>]

\* the message spawner hands a new message to node n: on_message_create
FocusSpawn(n) ==
    /\ Len(heap.msgs) < MaxSpawned
    /\ LET o == Len(heap.msgs) + 1
       IN  /\ heap' = [heap EXCEPT !.msgs = Append(@, NewMessage(o))]
           /\ nodes' = [nodes EXCEPT
                          ![n] = Focus_on_message_create(@, o)]
    /\ sim' = [sim EXCEPT !.calls = <<>>]
    /\ UNCHANGED <<procVars, grid>>

\* _simulate_step, the simple exchange of the pair (a, b) and its
\* on_collision_complete calls: a sends to b, then b sends to a
FocusExchange(a, b) ==
    /\ a < b
    /\ \A o \in 1..Len(heap.msgs) : heap.msgs[o].hops < MaxHops
    /\ nodes[a].encounter_counts[b] < MaxEncounters
    /\ nodes[b].encounter_counts[a] < MaxEncounters
    /\ LET s1 == Focus_send_message(nodes[a], b, sim.strategy,
                                    sim.utility_threshold)
           b1 == IF s1.returned = Nothing THEN nodes[b]
                 ELSE Focus_receive_message(nodes[b], s1.returned[1], a)
           h1 == IF s1.returned = Nothing THEN heap
                 ELSE increment_hops(heap, s1.returned[1])
           s2 == Focus_send_message(b1, a, sim.strategy,
                                    sim.utility_threshold)
           a2 == IF s2.returned = Nothing THEN s1.node
                 ELSE Focus_receive_message(s1.node, s2.returned[1], b)
           h2 == IF s2.returned = Nothing THEN h1
                 ELSE increment_hops(h1, s2.returned[1])
       IN  /\ nodes' = [nodes EXCEPT
                          ![a] = Focus_on_collision_complete(a2),
                          ![b] = Focus_on_collision_complete(s2.node)]
           /\ heap' = h2
           /\ sim' = [sim EXCEPT !.calls =
                         <<SendCall(nodes[a], b, sim.strategy, s1),
                           SendCall(b1, a, sim.strategy, s2)>>]
    /\ UNCHANGED <<procVars, grid>>

\* Phase 4 of _simulate_step: on_simulation_step_end of every node
FocusStepEnd ==
    /\ \A n \in NodeIds : nodes[n].current_time < MaxTime
    /\ nodes' = [n \in NodeIds |->
                    [nodes[n] EXCEPT !.current_time = @ + 1]]
    /\ sim' = [sim EXCEPT !.calls = <<>>]
    /\ UNCHANGED <<procVars, heap, grid>>

NextFocus ==
    \/ \E n \in NodeIds : FocusSpawn(n)
    \/ \E a, b \in NodeIds : FocusExchange(a, b)
    \/ FocusStepEnd

SpecFocus == InitFocus /\ [][NextFocus]_vars

(* ------------------------- EpidemicRoutingNode -------------------------- *)
\* the largest value given to the Buffer Size setting and the messages
\* created while an Epidemic grid is followed
MaxBuffer == 2
MaxCreated == 2

BufferSizes == 1..MaxBuffer

\* EpidemicRoutingNode.__init__ ; message_seen_times has the message
\* objects for keys, every message object having an id of its own
NewEpidemicNode ==
    [messages |-> <<>>, message_seen_times |-> <<>>,
     _recent_senders |-> {}, current_time |-> 0]

\* self.message_seen_times[str(msg.id)] of a defaultdict(float)
SeenTime(nd, o) ==
    IF HasKey(nd.message_seen_times, o) THEN Get(nd.message_seen_times, o)
    ELSE 0

\* the key taken is the last one seen
NewestMessage(nd) ==
    LET t(i) == SeenTime(nd, nd.messages[i].key)
        i == CHOOSE i \in 1..Len(nd.messages) :
                /\ \A j \in 1..Len(nd.messages) : t(j) <= t(i)
                /\ \A j \in 1..(i - 1) : t(j) < t(i)
    IN  nd.messages[i].key

\* manage_buffer: min(self.messages.keys(), key = first-seen time), the
\* first of the keys with the smallest time
OldestMessage(nd) ==
    LET t(i) == SeenTime(nd, nd.messages[i].key)
        i == CHOOSE i \in 1..Len(nd.messages) :
                /\ \A j \in 1..Len(nd.messages) : t(i) <= t(j)
                /\ \A j \in 1..(i - 1) : t(j) > t(i)
    IN  nd.messages[i].key

\* EpidemicRoutingNode.manage_buffer
RECURSIVE manage_buffer(_, _)
manage_buffer(nd, buffer_size) ==
    IF Len(nd.messages) > buffer_size
    THEN LET oldest_message == OldestMessage(nd)
         IN  manage_buffer(
                 [nd EXCEPT
                    !.messages = Del(@, oldest_message),
                    !.message_seen_times = Del(@, oldest_message)],
                 buffer_size)
    ELSE nd

\* a send_message that does not look at the recent senders
Epidemic_send_message_ToAnyone(nd, receiving_node) ==
    IF nd.messages = <<>> THEN Nothing
    ELSE Some(Keys(nd.messages))

\* EpidemicRoutingNode.send_message
Epidemic_send_message(nd, receiving_node) ==
    IF receiving_node \in nd._recent_senders THEN Nothing
    ELSE IF nd.messages = <<>> THEN Nothing
    ELSE Some(Keys(nd.messages))

\* receive_message, the loop: a message not held is stored with the time
\* of the node
RECURSIVE Epidemic_receive_each(_, _)
Epidemic_receive_each(nd, list) ==
    IF list = <<>> THEN nd
    ELSE Epidemic_receive_each(
             IF HasKey(nd.messages, Head(list)) THEN nd
             ELSE [nd EXCEPT
                     !.messages = Put(@, Head(list), 1),
                     !.message_seen_times =
                         Put(@, Head(list), nd.current_time)],
             Tail(list))

\* EpidemicRoutingNode.receive_message
Epidemic_receive_message(nd, list, sending_node, buffer_size) ==
    manage_buffer(
        Epidemic_receive_each(
            [nd EXCEPT !._recent_senders = @ \cup {sending_node}], list),
        buffer_size)

\* EpidemicRoutingNode.on_message_create
Epidemic_on_message_create(nd, message, buffer_size) ==
    manage_buffer(
        [nd EXCEPT !.messages = Put(@, message, 1),
                   !.message_seen_times = Put(@, message, nd.current_time)],
        buffer_size)

\* EpidemicRoutingNode.on_collision_complete
Epidemic_on_collision_complete(nd) == [nd EXCEPT !._recent_senders = {}]

InitEpidemic ==
    /\ InsideWorker
    /\ nodes = [n \in NodeIds |-> NewEpidemicNode]
    /\ heap = [msgs |-> <<>>, dicts |-> [d \in {ClassProps} |-> None]]
    /\ grid = <<>>
    /\ \E buffer_size \in BufferSizes :
          sim = [buffer_size |-> buffer_size, offered |-> <<>>]

\* the message spawner hands a new message to node n: on_message_create
EpidemicSpawn(n) ==
    /\ Len(heap.msgs) < MaxCreated
    /\ LET o == Len(heap.msgs) + 1
       IN  /\ heap' = [heap EXCEPT !.msgs = Append(@, NewMessage(o))]
           /\ nodes' = [nodes EXCEPT ![n] =
                           Epidemic_on_message_create(@, o, sim.buffer_size)]
           /\ sim' = [sim EXCEPT !.offered =
                         [m \in NodeIds |-> IF m = n THEN {o} ELSE {}]]
    /\ UNCHANGED <<procVars, grid>>

\* _simulate_step, the simple exchange of the pair (a, b) and its
\* on_collision_complete calls: a sends to b, then b sends to a
EpidemicExchange(a, b) ==
    /\ a < b
    /\ \A o \in 1..Len(heap.msgs) : heap.msgs[o].hops < MaxHops
    /\ LET m1 == Epidemic_send_message(nodes[a], b)
           b1 == IF m1 = Nothing THEN nodes[b]
                 ELSE Epidemic_receive_message(nodes[b], m1[1], a,
                                               sim.buffer_size)
           h1 == IF m1 = Nothing THEN heap ELSE increment_hops(heap, m1[1])
           m2 == Epidemic_send_message(b1, a)
           a2 == IF m2 = Nothing THEN nodes[a]
                 ELSE Epidemic_receive_message(nodes[a], m2[1], b,
                                               sim.buffer_size)
           h2 == IF m2 = Nothing THEN h1 ELSE increment_hops(h1, m2[1])
       IN  /\ nodes' = [nodes EXCEPT
                          ![a] = Epidemic_on_collision_complete(a2),
                          ![b] = Epidemic_on_collision_complete(b1)]
           /\ heap' = h2
           /\ sim' = [sim EXCEPT !.offered =
                         [m \in NodeIds |->
                             IF m = b /\ m1 # Nothing THEN Range(m1[1])
                             ELSE IF m = a /\ m2 # Nothing THEN Range(m2[1])
                             ELSE {}]]
    /\ UNCHANGED <<procVars, grid>>

\* Phase 4 of _simulate_step: on_simulation_step_end of every node
EpidemicStepEnd ==
    /\ \A n \in NodeIds : nodes[n].current_time < MaxTime
    /\ nodes' = [n \in NodeIds |->
                    [nodes[n] EXCEPT !.current_time = @ + 1]]
    /\ sim' = [sim EXCEPT !.offered = <<>>]
    /\ UNCHANGED <<procVars, heap, grid>>

NextEpidemic ==
    \/ \E n \in NodeIds : EpidemicSpawn(n)
    \/ \E a, b \in NodeIds : EpidemicExchange(a, b)
    \/ EpidemicStepEnd

SpecEpidemic == InitEpidemic /\ [][NextEpidemic]_vars

(* ---------------------------- place_node ------------------------------- *)
\* the side of the grid nodes are placed in; coordinates offered to
\* place_node run from one below 0 to one above the side
PlaceSide == 3

\* the values of the street settings, in the unit that makes the
\* promenade 1 wide
street_width == 1
block_size == 1
canal_width == 1
promenade_width == 1

GridVariants == {"SimpleRandomGrid", "CityGrid", "PondicherryGrid"}
PlaceCoords == (0 - 1)..(PlaceSide + 1)

\* range(start, stop, step) as a set
PyRange(start, stop, by) ==
    {x \in start..(stop - 1) : (x - start) % by = 0}

\* the regions of the points (x, y) with x in xs and y in ys
RegionsOfPoints(xs, ys) == {get_region(x, y) : x \in xs, y \in ys}

\* PondicherryGrid._initialize_city_layout without the Tamil quarter: the
\* streets of the French quarter, the canal and the beach promenade
FixedStreets(width, length) ==
    LET french == width \div 3
        total_block == block_size + street_width
    IN  RegionsOfPoints(0..(french - 1), PyRange(0, length, total_block))
          \cup RegionsOfPoints(PyRange(0, french, total_block),
                               0..(length - 1))
          \cup RegionsOfPoints(french..(french + canal_width - 1),
                               0..(length - 1))
          \cup RegionsOfPoints((width - promenade_width)..(width - 1),
                               0..(length - 1))

\* PondicherryGrid._initialize_tamil_quarter: the points that become a
\* street with probability 0.8 or 0.3
TamilCandidates(width, length) ==
    LET start == width \div 3 + canal_width
    IN  RegionsOfPoints(PyRange(start, width, block_size * 2),
                        0..(length - 1))
          \cup RegionsOfPoints(start..(width - 1),
                               PyRange(0, length, block_size))

\* CityGrid._is_on_street
City_is_on_street(position) ==
    LET total_block == block_size + street_width
    IN  \/ position[2] % total_block < street_width
        \/ position[1] % total_block < street_width

\* PondicherryGrid._is_on_street
Pondy_is_on_street(g, position) ==
    get_region(position[1], position[2]) \in g.street_locations

\* the test the variant's place_node starts with
is_on_street(g, position) ==
    IF g.variant = "CityGrid" THEN City_is_on_street(position)
    ELSE IF g.variant = "PondicherryGrid" THEN Pondy_is_on_street(g, position)
    ELSE FALSE

\* a bounds test that leaves out the far boundary
InsideOpen(g, position) ==
    /\ 0 <= position[1] /\ position[1] < g.width
    /\ 0 <= position[2] /\ position[2] < g.length

\* the bounds test of place_node
Inside(g, position) ==
    /\ 0 <= position[1] /\ position[1] <= g.width
    /\ 0 <= position[2] /\ position[2] <= g.length

\* place_node of the three grids: what it returns and the grid afterwards
place_node(g, nd, n) ==
    IF is_on_street(g, nd[n].position)
    THEN [returned |-> FALSE, grid |-> g]
    ELSE IF Inside(g, nd[n].position)
    THEN [returned |-> TRUE,
          grid |-> add_node_to_grid([g EXCEPT !.nodes = Append(@, n)], nd, n)]
    ELSE [returned |-> FALSE, grid |-> g]

\* a grid of one of the three classes after construction, and the nodes
\* that are going to be offered to it
InitPlace ==
    /\ InsideWorker
    /\ nodes = [n \in NodeIds |-> [position |-> <<0, 0>>]]
    /\ heap = <<>>
    /\ \E variant \in GridVariants :
       \E tamil \in SUBSET TamilCandidates(PlaceSide, PlaceSide) :
          grid = [variant |-> variant, width |-> PlaceSide,
                  length |-> PlaceSide, nodes |-> <<>>, grid |-> <<>>,
                  street_locations |->
                      IF variant = "PondicherryGrid"
                      THEN FixedStreets(PlaceSide, PlaceSide) \cup tamil
                      ELSE {}]
    /\ sim = [offered |-> 0, returned |-> FALSE]

\* the next node gets a position and is offered to place_node
PlaceNode ==
    /\ sim.offered < MaxNodes
    /\ \E position \in PlaceCoords \X PlaceCoords :
          LET n == sim.offered + 1
              nd == [nodes EXCEPT ![n].position = position]
              r == place_node(grid, nd, n)
          IN  /\ nodes' = nd
              /\ grid' = r.grid
              /\ sim' = [offered |-> n, returned |-> r.returned]
    /\ UNCHANGED <<procVars, heap>>

NextPlace == PlaceNode

SpecPlace == InitPlace /\ [][NextPlace]_vars

\* the positions the position search of auto_place_nodes can hand to one
\* iteration of its loop. random.uniform(0, width) stays below width.
\* SimpleRandomGrid: any point; CityGrid: a point of a block, its far
\* edge included; PondicherryGrid: the search goes on until the point is
\* on no street, canal or beach region (a region that is not in
\* street_locations has no entry in quarter_map either)
BuildingPositions(g) ==
    LET inner == (0..(g.width - 1)) \X (0..(g.length - 1))
        total_block == block_size + street_width
        starts(side) == {k * total_block + street_width :
                            k \in 0..((side \div total_block) - 1)}
    IN  IF g.variant = "CityGrid"
        THEN {<<sx + dx, sy + dy>> :
                 sx \in starts(g.width), sy \in starts(g.length),
                 dx \in 0..block_size, dy \in 0..block_size}
        ELSE IF g.variant = "PondicherryGrid"
        THEN {position \in inner : ~Pondy_is_on_street(g, position)}
        ELSE inner

\* auto_place_nodes, one iteration of its loop: a new node gets the
\* position the search returns and is offered to place_node
AutoPlace ==
    /\ sim.offered < MaxNodes
    /\ \E position \in BuildingPositions(grid) :
          LET n == sim.offered + 1
              nd == [nodes EXCEPT ![n].position = position]
              r == place_node(grid, nd, n)
          IN  /\ nodes' = nd
              /\ grid' = r.grid
              /\ sim' = [offered |-> n, returned |-> r.returned]
    /\ UNCHANGED <<procVars, heap>>

NextAutoPlace == AutoPlace

\* auto_place_nodes runs on: an iteration whose search can return does
SpecAutoPlace ==
    InitPlace /\ [][NextAutoPlace]_vars /\ WF_vars(NextAutoPlace)

(* ------------------------------ claims --------------------------------- *)
\* the command at the head of the control queue worker w reads from
Pending(w) ==
    IF control_queue[worker[w].queues] = <<>> THEN None
    ELSE Head(control_queue[worker[w].queues])

\* the snapshots of worker w that are on its results queue, and the last
\* one republished
Snapshots(w) ==
    (IF published[w] = NoSnapshot THEN {} ELSE {published[w]})
        \cup {results_queue[w][i] : i \in 1..Len(results_queue[w])}

\* C1: with two or more workers running, once the one pause() of the manager
\* has been taken off the control queue and while the manager issues nothing
\* else, no worker of the pool executes a step.
C1_PauseStopsEveryWorker ==
    [][(status = PAUSED /\ status' = PAUSED /\ mgr = "idle" /\ mgr' = "idle"
            /\ control_queue[gen] = <<>>)
        => \A w \in simulations : worker'[w].step = worker[w].step]_vars

\* C2: after play() from Paused, once its command has been taken off the
\* control queue, no worker of the pool is still blocked in its paused wait.
C2_PlayResumesEveryWorker ==
    (status = RUNNING /\ mgr = "idle" /\ control_queue[gen] = <<>>)
        => \A w \in simulations : ~(is_alive(w) /\ worker[w].pc = "blocked")

\* C3: a worker that takes a stop command, at its poll or as the message
\* that ends its paused wait, has status stopped afterwards and its step
\* counter does not increase, neither in that iteration nor later.
C3_StopEndsWorker ==
    [][\A w \in WorkerIds :
          /\ (WorkerNext(w) /\ Pending(w) = "stop")
                => /\ worker'[w].status = "stopped"
                   /\ worker'[w].step = worker[w].step
          /\ worker[w].control = "stop"
                => worker'[w].step <= worker[w].step]_vars

\* C4: when stop() returns, whatever the status was, the status is Empty,
\* the pool is empty, no process of the former pool is alive, and the
\* manager holds a new pair of queues that nobody has put anything on.
C4_StopResets ==
    [][(mgr = "stopping" /\ mgr' = "idle")
        => /\ status' = Empty
           /\ simulations' = {}
           /\ \A w \in simulations : worker'[w].proc # "started"
           /\ gen' # gen
           /\ control_queue'[gen'] = <<>>
           /\ \A w \in WorkerIds :
                 worker'[w].proc # "none" => worker'[w].queues # gen']_vars

\* stop() has returned after terminating a process of the pool that was
\* still alive when the join timed out
C4_Witness ==
    /\ status = Empty /\ mgr = "idle" /\ gen > 0 /\ simulations = {}
    /\ \E w \in WorkerIds :
          worker[w].proc = "terminated" /\ worker[w].queues = gen - 1

\* C5: while the status is Running or Paused every configuration mutator
\* raises ConfigError and leaves the stored configuration unchanged.
C5_MutatorsRejected ==
    [][(/\ status \in {RUNNING, PAUSED}
        /\ \/ set_grid
           \/ set_node
           \/ set_message_spawner
           \/ set_target_spawner
           \/ set_node_count
           \/ set_step_count)
        => /\ raised'.error = "ConfigError"
           /\ config' = config]_vars

\* C6: play() while Running, pause() while not Running and step() while
\* Running raise ConfigError and change nothing: no control message, no
\* process started, status, pool, queues and collector as before.
C6_InvalidCallRejected ==
    [][(\/ play /\ status = RUNNING
        \/ pause /\ status # RUNNING
        \/ step /\ status = RUNNING)
        => /\ raised' \in {Raise(op, "ConfigError") :
                              op \in {"play", "pause", "step"}}
           /\ UNCHANGED <<status, simulations, gen, control_queue,
                          results_queue, collector, published, worker>>]_vars

\* play() was rejected while a worker process of the pool was running
C6_Witness ==
    /\ raised = Raise("play", "ConfigError")
    /\ status = RUNNING
    /\ \E w \in simulations : is_alive(w)

\* C7: a worker that takes a pause at its poll puts exactly one snapshot with
\* status paused on the results queue and runs nothing of a step; while it
\* waits it runs nothing and emits nothing; it leaves the wait only by
\* taking one message off the control queue (or by being terminated); and a
\* running worker that is not in that wait can always take its next step.
C7_PauseBlocks ==
    [][\A w \in WorkerIds :
          /\ (WorkerNext(w) /\ worker[w].pc = "loop" /\ Pending(w) = "pause")
                => /\ worker'[w].pc = "blocked"
                   /\ results_queue'[w] =
                         Append(results_queue[w],
                                [simulation_id |-> w,
                                 step |-> worker[w].step,
                                 status |-> "paused",
                                 moves |-> worker[w].moves,
                                 ages |-> worker[w].ages])
                   /\ worker'[w].step = worker[w].step
                   /\ worker'[w].moves = worker[w].moves
                   /\ worker'[w].ages = worker[w].ages
                   /\ worker'[w].phases = <<>>
          /\ (is_alive(w) /\ worker[w].pc = "blocked")
                => \/ /\ worker'[w].pc = "blocked"
                      /\ worker'[w].step = worker[w].step
                      /\ worker'[w].moves = worker[w].moves
                      /\ worker'[w].ages = worker[w].ages
                      /\ worker'[w].phases = <<>>
                      /\ Len(results_queue'[w]) <= Len(results_queue[w])
                   \/ worker'[w].proc = "terminated"
                   \/ /\ worker'[w].pc # "blocked"
                      /\ Pending(w) # None
                      /\ control_queue'[worker[w].queues] =
                            Tail(control_queue[worker[w].queues])
          /\ (is_alive(w) /\ worker[w].pc = "loop")
                => ENABLED WorkerIterate(w)]_vars

\* a worker is blocked in its paused wait and its paused snapshot is out
C7_Witness ==
    \E w \in WorkerIds :
        /\ is_alive(w) /\ worker[w].pc = "blocked"
        /\ \E s \in Snapshots(w) :
              s.status = "paused" /\ s.step = worker[w].step

\* C8: the status of a worker is always one of running, paused, stopped; a
\* worker that got no control command ends with step = step_count, having
\* moved step_count times, and with status stopped.
C8_RunsToStopped ==
    \A w \in WorkerIds :
        (worker[w].proc # "none" /\ worker[w] # Gone(worker[w]))
            => /\ worker[w].status \in {"running", "paused", "stopped"}
               /\ (worker[w].proc = "exited" /\ worker[w].control = None)
                     => /\ worker[w].step = worker[w].step_count
                        /\ worker[w].moves = worker[w].step_count
                        /\ worker[w].status = "stopped"

\* position of the first x in seq, 0 when it is not there
RECURSIVE Pos(_, _)
Pos(seq, x) ==
    IF seq = <<>> THEN 0
    ELSE IF Head(seq) = x THEN 1
    ELSE IF Pos(Tail(seq), x) = 0 THEN 0
    ELSE 1 + Pos(Tail(seq), x)

\* position of the last x in seq, 0 when it is not there
RECURSIVE LastPos(_, _)
LastPos(seq, x) ==
    IF seq = <<>> THEN 0
    ELSE IF seq[Len(seq)] = x THEN Len(seq)
    ELSE LastPos(SubSeq(seq, 1, Len(seq) - 1), x)

\* C9: in a step the snapshot is emitted after spawn, detection, exchange,
\* on_collision_complete, on_simulation_step_end and move, so the snapshot
\* of step k shows the nodes after the move of step k (k + 1 moves in all).
C9_SnapshotAfterMove ==
    \A w \in WorkerIds :
        /\ Pos(worker[w].phases, "send_current_state") # 0
              => /\ LastPos(worker[w].phases, "on_simulation_step_end")
                       < Pos(worker[w].phases, "send_current_state")
                 /\ LastPos(worker[w].phases, "move")
                       < Pos(worker[w].phases, "send_current_state")
        /\ \A s \in Snapshots(w) :
              s.status # "paused" => s.moves = s.step + 1

\* C10: after a step() call every instance of the pool has run one step and
\* put exactly one snapshot, which has been republished under its id.
C10_StepPublishesOnePerInstance ==
    \A run \in lastStep :
        /\ run.error = None
        /\ Len(run.put) = 1
        /\ published[run.sim] = run.put[1]


\* C11: a worker whose step raises an exception sets its status to stopped,
\* puts one last snapshot (with that status) on the results queue and then
\* exits; the other workers are left as they were.
C11_FaultStopsOnlyThatWorker ==
    [][\A w \in WorkerIds :
          WorkerFault(w)
             => /\ ~is_alive(w)'
                /\ worker'[w].status = "stopped"
                /\ Len(results_queue'[w]) = Len(results_queue[w]) + 1
                /\ results_queue'[w][Len(results_queue'[w])].status = "stopped"
                /\ \A v \in WorkerIds \ {w} :
                      /\ worker'[v] = worker[v]
                      /\ results_queue'[v] = results_queue[v]]_vars


\* C12: exchange copies, so a change made to the message one node holds
\* (here the TTL decrement of on_simulation_step_end) changes neither hops
\* nor TTL of what any other node holds, nor of any message the node does
\* not hold.
C12_ExchangeCopies ==
    [][\A n \in NodeIds :
          LimitedStepEnd(n)
             => /\ \A m \in NodeIds \ {n} :
                      View(nodes[m], heap)' = View(nodes[m], heap)
                /\ \A o \in 1..Len(heap.msgs) :
                      ~HasKey(nodes[n].messages, o)
                         => /\ Ttl(heap, o)' = Ttl(heap, o)
                            /\ heap'.msgs[o] = heap.msgs[o]]_vars

\* the region lists that hold node n
RegionsOf(n) ==
    {r \in DOMAIN grid.grid :
        \E i \in 1..Len(grid.grid[r]) : grid.grid[r][i] = n}

\* C13: every node is listed in exactly one region list of the grid, once,
\* and that list is the one of the region of the node's current position.
C13_NodeIndexedByPosition ==
    \A n \in NodeIds :
        /\ RegionsOf(n)
              = {get_region(nodes[n].position[1], nodes[n].position[2])}
        /\ \A r \in RegionsOf(n) :
              Cardinality({i \in 1..Len(grid.grid[r]) : grid.grid[r][i] = n})
                 = 1

\* C18: the pair set collected in a step holds <<a, b>> exactly when a has
\* the smaller id and one of the two detected the other in that step; it
\* holds no pair of a node with itself and no pair the other way round.
C18_CanonicalPairs ==
    [][GridCollect
        => \A a, b \in NodeIds :
              <<a, b>> \in sim'.collision_pairs
                 <=> /\ a < b
                     /\ \/ \E i \in DOMAIN detect_collision(grid, nodes, a) :
                              detect_collision(grid, nodes, a)[i] = b
                        \/ \E i \in DOMAIN detect_collision(grid, nodes, b) :
                              detect_collision(grid, nodes, b)[i] = a]_vars

\* a pair set was collected in which two nodes that detected each other
\* appear as one pair
C18_Witness ==
    /\ sim.collision_pairs # {}
    /\ \E a, b \in NodeIds :
          /\ <<a, b>> \in sim.collision_pairs
          /\ \E i \in DOMAIN detect_collision(grid, nodes, a) :
                detect_collision(grid, nodes, a)[i] = b
          /\ \E i \in DOMAIN detect_collision(grid, nodes, b) :
                detect_collision(grid, nodes, b)[i] = a

\* the pair Phase 2 or Phase 3 is at, and whether one of its nodes is a
\* target
PairAt == sim.pairs[sim.i]
HasTarget(p) == nodes[p[1]].target \/ nodes[p[2]].target

\* the methods of the exchange between two nodes that are not targets
NormalExchange ==
    {"pre_collision", "process_pre_collision", "send_message",
     "send_requested_messages", "receive_message"}

\* the methods that return messages to hand over
SendMethods == {"send_message", "send_requested_messages", "on_send_to_target"}

\* the messages the calls of a pair handed to a target, in order
RECURSIVE Handed(_)
Handed(calls) ==
    IF calls = <<>> THEN <<>>
    ELSE (IF Head(calls).method = "on_receive_as_target"
          THEN Head(calls).messages ELSE <<>>) \o Handed(Tail(calls))

\* the nodes on which the calls of a pair invoked a method
Callers(calls, method) ==
    {calls[k].node : k \in {j \in DOMAIN calls : calls[j].method = method}}

\* C14: for a pair with a target, neither Phase 2 nor Phase 3 calls
\* pre_collision, process_pre_collision, send_message,
\* send_requested_messages or receive_message on its nodes, and the
\* messages handed to a target are appended to success_messages.
C14_TargetInterfaceOnly ==
    [][((ExPre \/ ExExchange) /\ HasTarget(PairAt))
        => /\ \A k \in DOMAIN sim'.calls :
                 sim'.calls[k].method \notin NormalExchange
           /\ sim'.success_messages
                 = sim.success_messages \o Handed(sim'.calls)]_vars

\* a pair with a target was exchanged and messages were handed to the
\* target
C14_Witness ==
    /\ sim.success_messages # <<>>
    /\ \E k \in DOMAIN sim.calls :
          /\ sim.calls[k].method = "on_receive_as_target"
          /\ sim.calls[k].messages # <<>>
          /\ nodes[sim.calls[k].node].target

C16_FallbackOnNone ==
    [][/\ (ExPre /\ ~HasTarget(PairAt))
            => /\ Callers(sim'.calls, "pre_collision")
                     = {PairAt[1], PairAt[2]}
               /\ PairAt \in sim'.pre_collision_data
                     <=> /\ Len(sim'.calls) = 4
                         /\ \A k \in DOMAIN sim'.calls :
                               sim'.calls[k].value # None
       /\ (ExExchange /\ ~HasTarget(PairAt))
            => /\ IF PairAt \in sim.pre_collision_data
                  THEN /\ Callers(sim'.calls, "send_requested_messages")
                             = {PairAt[1], PairAt[2]}
                       /\ Callers(sim'.calls, "send_message") = {}
                  ELSE /\ Callers(sim'.calls, "send_message")
                             = {PairAt[1], PairAt[2]}
                       /\ Callers(sim'.calls, "send_requested_messages")
                             = {}
               /\ Callers(sim'.calls, "on_collision_complete")
                     = {PairAt[1], PairAt[2]}
               /\ sim'.pc \in {"exchange", "end"}]_vars

\* a pair whose four answers were valid was exchanged with
\* send_requested_messages and a message changed hands
C16_Witness ==
    \E k \in DOMAIN sim.calls :
        /\ sim.calls[k].method = "send_requested_messages"
        /\ sim.calls[k].messages # <<>>

Put1(w) == results_queue'[w][Len(results_queue'[w])]
Puts(w) == WorkerNext(w) /\ Len(results_queue'[w]) = Len(results_queue[w]) + 1

\* C19 as stated: a snapshot a worker puts on the results queue carries a
\* step value greater than that of every snapshot it put before.
C19_StrictSnapshotSteps ==
    [][\A w \in WorkerIds :
          Puts(w) => \A i \in 1..Len(results_queue[w]) :
                        results_queue[w][i].step < Put1(w).step]_vars

\* C19, amended: a snapshot carries the value of the step counter at the
\* time it is put; the counter never decreases, advances by exactly 1 in
\* an iteration that executes a step and not at all in one that takes a
\* pause; so step values never decrease from one snapshot of a worker to
\* the next, and two snapshots carry the same value only when the earlier
\* one is the snapshot of a pause and the later one that of the step
\* executed after the wait.
C19_SnapshotSteps ==
    [][\A w \in WorkerIds :
          WorkerNext(w)
            => /\ Puts(w)
               /\ Put1(w).step = worker[w].step
               /\ IF worker'[w].phases = <<>>
                  THEN /\ worker'[w].step = worker[w].step
                       /\ Put1(w).status = "paused"
                  ELSE /\ worker'[w].step = worker[w].step + 1
                       /\ Put1(w).status # "paused"
               /\ \A i \in 1..Len(results_queue[w]) :
                     \/ results_queue[w][i].step < Put1(w).step
                     \/ /\ results_queue[w][i].step = Put1(w).step
                        /\ results_queue[w][i].status = "paused"
                        /\ Put1(w).status # "paused"]_vars

\* the snapshot of a pause and the snapshot of the step executed after the
\* wait are on the results queue with the same step value
C19_Witness ==
    \E w \in WorkerIds :
        \E i, j \in 1..Len(results_queue[w]) :
            /\ i < j
            /\ results_queue[w][i].status = "paused"
            /\ results_queue[w][j].status # "paused"
            /\ results_queue[w][i].step = results_queue[w][j].step

\* C20: after receive_message every message the node stores from the
\* received list is held with copy count 1, also when the same message is
\* received again from the same sender.
C20_ReceivedCountIsOne ==
    \A k \in 1..Len(heap.messages) :
        \A i \in 1..Len(heap.messages[k].value) :
            heap.messages[k].value[i].count = 1

\* C21: the buffer of a Spray-and-Wait-Limited node never holds more than
\* max_ttl messages.
C21_BufferWithinCapacity ==
    \A n \in NodeIds : Len(nodes[n].messages) <= sim.max_ttl

\* C22: a message that arrives at a node gets TTL max_ttl; on_simulation_
\* step_end of a node lowers the TTL of every message the node holds by
\* exactly 1, however many it holds, and removes exactly the messages whose
\* TTL is then at or below min_ttl.
C22_TtlLoweredByOne ==
    [][\A n \in NodeIds :
          /\ LimitedStepEnd(n)
                => \A i \in 1..Len(nodes[n].messages) :
                      LET o == nodes[n].messages[i].key
                      IN  /\ Ttl(heap', o) = Ttl(heap, o) - 1
                          /\ HasKey(nodes'[n].messages, o)
                                <=> Ttl(heap, o) - 1 > min_ttl
          /\ LimitedSpawn(n)
                => \A i \in 1..Len(nodes'[n].messages) :
                      ~HasKey(nodes[n].messages, nodes'[n].messages[i].key)
                         => Ttl(heap', nodes'[n].messages[i].key)
                               = sim.max_ttl]_vars

\* C29: a worker step invokes on_simulation_step_end exactly once on every
\* node: whenever a worker's step counter advances by one, the number of
\* step ends its nodes have seen advances by one as well.
C29_OneStepEndPerStep ==
    [][\A w \in WorkerIds :
          (/\ worker[w] # NoWorker /\ worker'[w] # NoWorker
           /\ worker'[w].step = worker[w].step + 1)
             => worker'[w].ages = worker[w].ages + 1]_vars

\* C28: create_simulations raises ConfigError and adds no worker to the pool
\* when the grid, the node or the message spawner is unset; with all three
\* set it raises ConfigError when the status is Running and returns without
\* changing anything when the status is Paused.
C28_CreateRefusals ==
    [][create_simulations =>
          IF config.grid = None \/ config.node = None
                \/ config.message_spawner = None
          THEN /\ raised' = Raise("create_simulations", "ConfigError")
               /\ simulations' = simulations /\ worker' = worker
          ELSE /\ status = RUNNING
                    => /\ raised' = Raise("create_simulations", "ConfigError")
                       /\ simulations' = simulations /\ worker' = worker
               /\ status = PAUSED
                    => /\ raised' = Ok("create_simulations")
                       /\ simulations' = simulations /\ worker' = worker
                       /\ status' = status]_vars

\* create_simulations has just refused to build workers for a manager whose
\* node is unset although its grid is set
C28_Witness ==
    /\ raised = Raise("create_simulations", "ConfigError")
    /\ config.grid # None /\ config.node = None
    /\ status = Empty

\* the pair at sim.i is taken through Phase 2 and the nodes are asked
PreCollisionCalled ==
    /\ sim.pc = "pre" /\ sim'.calls # <<>>
    /\ sim'.calls[1].method = "pre_collision"

\* the last thing the worker did was to finish the exchange of pair p
JustCompleted(p) ==
    /\ Len(sim.calls) >= 2
    /\ sim.calls[Len(sim.calls) - 1] =
          Call("on_collision_complete", p[1], None, <<>>)
    /\ sim.calls[Len(sim.calls)] =
          Call("on_collision_complete", p[2], None, <<>>)

\* C30: the pairs of a step are processed one after another: the summaries
\* of a pair are asked for (pre_collision) only when the exchange of the
\* pair before it in the shuffled list is complete, so they describe the
\* buffers the pair's exchange starts from.
C30_PairAfterPair ==
    [][(PreCollisionCalled /\ sim.i > 1)
          => JustCompleted(sim.pairs[sim.i - 1])]_vars

\* the region and the eight regions around it
Block(region) ==
    {<<region[1] + i, region[2] + j>> : i, j \in -1..1}

\* the region of the position of node n
RegionOfNode(n) == get_region(nodes[n].position[1], nodes[n].position[2])

\* C26: detect_collision(n) returns exactly the nodes m other than n that
\* lie in n's region or one of the eight regions around it and are at most
\* detection_range away from n, also when n lies on the far boundary
\* x = width or y = length.
C26_DetectsExactlyNear ==
    \A n \in NodeIds :
        Range(detect_collision(grid, nodes, n))
          = {m \in NodeIds \ {n} :
                /\ RegionOfNode(m) \in Block(RegionOfNode(n))
                /\ WithinRange(nodes[n].position, nodes[m].position,
                               detection_range)}

\* the zone of its variant in which the grid takes no node: none in the
\* plain grid, the street bands of the city grid, the street, canal and
\* promenade regions of the Pondicherry grid
Forbidden(g, position) ==
    \/ /\ g.variant = "CityGrid"
       /\ \/ position[1] % (block_size + street_width) < street_width
          \/ position[2] % (block_size + street_width) < street_width
    \/ /\ g.variant = "PondicherryGrid"
       /\ get_region(position[1], position[2]) \in g.street_locations

\* C27: place_node returns true, appends the node to the node list and
\* indexes it in its region if and only if 0 <= x <= width, 0 <= y <= length
\* and the position is in no forbidden zone; otherwise it returns false and
\* leaves node list and region index as they were.
C27_PlaceIffInBoundsAndAllowed ==
    [][PlaceNode =>
          LET n == sim'.offered
              position == nodes'[n].position
          IN  IF /\ 0 <= position[1] /\ position[1] <= grid.width
                 /\ 0 <= position[2] /\ position[2] <= grid.length
                 /\ ~Forbidden(grid, position)
              THEN /\ sim'.returned
                   /\ grid'.nodes = Append(grid.nodes, n)
                   /\ RegionList(grid', get_region(position[1], position[2]))
                         = Append(RegionList(grid,
                                      get_region(position[1], position[2])),
                                  n)
              ELSE /\ ~sim'.returned
                   /\ grid' = grid]_vars

\* a node has been placed on the far corner of a Pondicherry grid and
\* another one has been refused
C27_Witness ==
    /\ grid.variant = "PondicherryGrid"
    /\ sim.offered = 2 /\ Len(grid.nodes) = 1
    /\ \E n \in NodeIds : nodes[n].position = <<PlaceSide, PlaceSide>>
                              /\ n \in Range(grid.nodes)

\* the copies of message o in a returned list (none when None is returned)
CopiesSent(c, o) ==
    IF c.returned = Nothing THEN 0
    ELSE Cardinality({i \in 1..Len(c.returned[1]) : c.returned[1][i] = o})

\* C23: for each message send_message selects: a copy count n > 1 sends
\* n \div 2 copies and keeps n - n \div 2; a copy count 1 forwards the
\* message exactly when the sender's utility for the peer is at least the
\* threshold, and below the threshold nothing is sent and the count stays 1.
C23_SprayThenFocus ==
    \A k \in 1..Len(sim.calls) :
       LET c == sim.calls[k]
       IN  \A i \in 1..Len(c.selected) :
              LET o == c.selected[i]
                  n == Get(c.before, o)
              IN  /\ n > 1 => /\ CopiesSent(c, o) = n \div 2
                              /\ Get(c.after, o) = n - (n \div 2)
                  /\ n = 1 =>
                        IF AtLeast(c.utility, sim.utility_threshold)
                        THEN CopiesSent(c, o) = 1
                        ELSE CopiesSent(c, o) = 0 /\ Get(c.after, o) = 1

\* C25: copy counts are never negative and send_message never returns a
\* message whose copy count at the sender is 0.
C25_NoZeroCountSent ==
    /\ \A n \in NodeIds : \A i \in 1..Len(nodes[n].messages) :
          nodes[n].messages[i].value >= 0
    /\ \A k \in 1..Len(sim.calls) :
          \A i \in 1..Len(sim.calls[k].selected) :
             Get(sim.calls[k].before, sim.calls[k].selected[i]) = 0
                => CopiesSent(sim.calls[k], sim.calls[k].selected[i]) = 0

\* the messages node n holds
Held(nd, n) == Range(Keys(nd[n].messages))

\* the messages node n was handed by receive_message or on_message_create
\* in this step
Offered(n) == IF sim'.offered = <<>> THEN {} ELSE sim'.offered[n]

\* the first-seen time of message o at node n in this step: the time it
\* was stored with before, or the time of the node when it came in
FirstSeen(n, o) ==
    IF o \in Held(nodes, n) THEN SeenTime(nodes[n], o)
    ELSE nodes[n].current_time

\* C24: after receive_message or on_message_create an Epidemic node holds
\* at most buffer_size messages, and exactly buffer_size when more distinct
\* messages than that were at hand; every message evicted was first seen
\* no later than any message the node still holds.
C24_BufferBoundOldestEvicted ==
    [][\A n \in NodeIds :
          Offered(n) # {} =>
             LET all == Held(nodes, n) \cup Offered(n)
                 evicted == all \ Held(nodes', n)
             IN  /\ Held(nodes', n) \subseteq all
                 /\ Len(nodes'[n].messages) <= sim.buffer_size
                 /\ Cardinality(all) > sim.buffer_size
                       => Cardinality(Held(nodes', n)) = sim.buffer_size
                 /\ Cardinality(all) <= sim.buffer_size => evicted = {}
                 /\ \A o \in evicted : \A p \in Held(nodes', n) :
                       FirstSeen(n, o) <= FirstSeen(n, p)]_vars

\* a node that was full has just taken a message first seen later than the
\* one it held and has evicted the older one
C24_Witness ==
    \E n \in NodeIds :
       /\ sim.offered # <<>> /\ sim.offered[n] # {}
       /\ Len(nodes[n].messages) = sim.buffer_size
       /\ Held(nodes, n) = sim.offered[n]
       /\ \E o \in 1..Len(heap.msgs) :
                            /\ o \notin Held(nodes, n)
                            /\ \A p \in Held(nodes, n) :
                                   SeenTime(nodes[n], p) > 0

\* C31: within the exchange of a pair, a node that has just received
\* messages from its peer keeps the peer among its recent senders until
\* on_collision_complete, so its send_message towards the peer returns None.
C31_NoSendBack ==
    [][\A n, p \in NodeIds :
          SprayReceive(n, p) =>
             /\ p \in nodes'[n]._recent_senders
             /\ \A strategy \in {"first", "last"} :
                   Spray_send_message(nodes'[n], heap', p, strategy)
                      = Nothing]_vars

\* an exchange of the pair (a, b) in which no buffer reaches its capacity
RoomyExchange(a, b) ==
    /\ EpidemicExchange(a, b)
    /\ Cardinality(Held(nodes, a) \cup Held(nodes, b)) <= sim.buffer_size

HopsSeen(n, o) == heap'.msgs[o].hops

\* C33: hops never decreases; a message handed from one node to another
\* arrives with hops one higher, and the hops the sender sees for the copy
\* it keeps is what it was.
C33_HopsPerHandOver ==
    [][\A a, b \in NodeIds :
          (EpidemicExchange(a, b) /\ a < b) =>
             \A o \in 1..Len(heap.msgs) :
                /\ heap'.msgs[o].hops >= heap.msgs[o].hops
                /\ o \in Offered(b) =>
                      /\ HopsSeen(b, o) = heap.msgs[o].hops + 1
                      /\ o \in Held(nodes', a)
                            => HopsSeen(a, o) = heap.msgs[o].hops
                /\ o \in Offered(a) =>
                      /\ HopsSeen(a, o) = heap.msgs[o].hops + 1
                      /\ o \in Held(nodes', b)
                            => HopsSeen(b, o) = heap.msgs[o].hops]_vars

\* C34: auto_place_nodes terminates on every grid variant: the loop gets
\* through all its iterations, the position search of each one ending.
C34_AutoPlaceTerminates == <>(sim.offered = MaxNodes)

\* C35: whenever the status is Empty after stop() or step(), no process a
\* play() has started is alive, running its loop or blocked on the control
\* queue it was given.
C35_NoWorkerLeftBehind ==
    (status = Empty /\ mgr = "idle") => \A w \in WorkerIds : ~is_alive(w)

\* C36: no snapshot is lost: a snapshot a worker has put on its results
\* queue leaves that queue only in a drain loop of the manager, which
\* republishes it under the worker's id.
C36_NoSnapshotLost ==
    [][\A w \in WorkerIds :
          Len(results_queue'[w]) < Len(results_queue[w]) =>
             /\ w \in Producers
             /\ \/ collect_results /\ status = RUNNING
                \/ step /\ StepAllowed(status)
             /\ published'[w] \in
                   {results_queue[w][i] : i \in 1..Len(results_queue[w])}
                      \cup {run.put[1] : run \in {x \in lastStep' :
                                                    x.put # <<>>}}]_vars

\* C37: once every process of the pool has run its step_count steps and
\* exited, the status does not stay RUNNING: it leaves RUNNING without a
\* further call of the user.
C37_RunningEnds ==
    (/\ status = RUNNING
     /\ simulations # {}
     /\ \A w \in simulations : worker[w].proc = "exited")
        ~> (status # RUNNING)

\* the copy counts of a buffer
Counts(messages) == {messages[i].value : i \in 1..Len(messages)}

C40_NodesStayInside ==
    \A n \in NodeIds :
        /\ 0 <= nodes[n].position[1] /\ nodes[n].position[1] <= grid.width
        /\ 0 <= nodes[n].position[2] /\ nodes[n].position[2] <= grid.length

====
